---- MODULE Spec2Model ----
(***************************************************************************)
(* The CT1 station procedure engine: the run driver (CT1.py, CT1_DL.py),   *)
(* the ATPFWDL and SARF station procedures and the Completion Monitor      *)
(* (waitForTestCompletion).  The repository holds two variants of the      *)
(* engine: the current one (CT1.py, ATPFWDL.py, SARF.py, common.py),       *)
(* called "CT1" here, and the legacy single-file one (CT1_DL.py), called   *)
(* "CT1_DL".  Python values True / False / None are the strings "True",    *)
(* "False", "None"; a call that ends by an exception yields "raise".       *)
(***************************************************************************)
EXTENDS Integers, Sequences, FiniteSets, TLC

VARIABLES
    variant,      \* which program runs: "CT1" or "CT1_DL"
    objArgs,      \* the parsed command line and the files found on disk
    pc,           \* position of main(): "start", "station", "generic", "finish", "exited"
    bSuccess,     \* what main() gave: "unset", "True", "False", "raise"
    exitCode,     \* process exit code, -1 while running
    st_pc,        \* position inside the station procedure
    st_ret,       \* value the station procedure returns: "unset", "True", "False", "raise"
    nRetryCount,  \* ATPFWDL connection-check retry counter
    iLteBand,     \* SARF: index into LteBands of the band under test (0: none yet)
    instrument,   \* SARF local `instrument`: "unbound", "None", "open", "closed"
    mon_pc,       \* position inside waitForTestCompletion
    mon_ret,      \* value waitForTestCompletion returned: "unset", "True", "False"
    objProcess,   \* background logcat process: "none", "running", "exited", "terminated"
    pipe,         \* lines the logcat process has written and the monitor has not read
    fElapsed,     \* wall-clock ticks since the monitor's fStartTime
    trace,        \* history of the hardware-affecting steps: [step, env, res, band]
    uart,         \* one call of sendUartCommand / send_uart_command, step by step
    gate,         \* one call of checkAndGetAdbDevice, step by step
    lterx,        \* one call of getLTERXResult, step by step
    cmd           \* one call of runCommand / run_command and its two reader threads

vars == <<variant, objArgs, pc, bSuccess, exitCode, st_pc, st_ret, nRetryCount,
          iLteBand, instrument, mon_pc, mon_ret, objProcess, pipe, fElapsed, trace,
          uart, gate, lterx, cmd>>

mainVars == <<pc, bSuccess, exitCode>>
stVars   == <<st_pc, st_ret, nRetryCount, iLteBand, instrument>>
monVars  == <<mon_pc, mon_ret, objProcess, pipe, fElapsed>>
\* the primitives followed statement by statement (specification UnitSpec)
unitVars == <<uart, gate, lterx>>
\* everything but the primitive that is followed
progVars == <<variant, objArgs, pc, bSuccess, exitCode, st_pc, st_ret, nRetryCount,
              iLteBand, instrument, mon_pc, mon_ret, objProcess, pipe, fElapsed, trace,
              cmd>>

(***************************************************************************)
(* Bounds of the model.                                                    *)
(***************************************************************************)
\* the monitor's timeout, in clock ticks (300 s / 600 s in the program)
TimeoutTicks == 2
\* how many ticks past the timeout the clock is followed
ClockSlack == 2
\* capacity of the logcat pipe, in lines
MaxPipe == 2
\* longest output, in lines, of an external tool (upgrade_tool, Console.exe)
MaxOutLines == 2

\* most RES_* tokens in the bytes one UART command receives
MaxRxTokens == 2
\* most characters a spawned tool writes to its stdout and to its stderr
MaxStdout == 3
MaxStderr == 2

MaxClock == TimeoutTicks + ClockSlack

(***************************************************************************)
(* Program constants.                                                      *)
(***************************************************************************)
nMaxRetries == 3
fRxThreshold == -50
maxRetry == 3

UartTokens == {"REQ_INIT", "REQ_BOOT_ON", "REQ_BOOT_OFF", "REQ_POWER_ON",
               "REQ_POWER_OFF", "REQ_DC_IN", "REQ_DC_OUT"}

standard_responses == {"RES_DC_IN_OK", "RES_DC_OUT_OK", "RES_POWER_ON_OK",
                       "RES_POWER_OFF_OK", "RES_BOOT_ON_OK", "RES_BOOT_OFF_OK",
                       "RES_INIT_OK"}

LteBands == <<1, 26>>

(***************************************************************************)
(* What the environment can do to one call.                                *)
(***************************************************************************)
\* serial transport: works, raises serial.SerialException, raises another OSError
UartIO == {"ok", "SerialException", "OSError"}
\* the tokens found in the bytes received within the timeout window
UartRx == {rx \in SUBSET standard_responses : Cardinality(rx) <= MaxRxTokens}
\* one line of upgrade_tool output is the set of markers it contains
ToolMarkers == {"DevNo=", "Mode=Maskrom", "Upgrade firmware ok"}
ToolLines == SUBSET ToolMarkers
SeqsUpTo(S, n) == UNION {[1..k -> S] : k \in 0..n}
ToolOutputs == SeqsUpTo(ToolLines, MaxOutLines)
\* one line of Console.exe output
IQxelLines == {"other", "Signal power: -12.5dBm", "Signal power: n/a"}
IQxelOutputs == SeqsUpTo(IQxelLines, MaxOutLines)
\* VISA resource names
VisaResources == {"GPIB0::22::INSTR", "ASRL1::INSTR"}
VisaListings == SeqsUpTo(VisaResources, MaxOutLines)
\* the +QRXFTM values of one captured rxlog, oldest first
RxValues == {fRxThreshold - 1, fRxThreshold, fRxThreshold + 1}
RxCaptures == SeqsUpTo(RxValues, 1)
\* lines of the filtered log stream
LogLines == {"ATP Test Finish!!", "other"}

(***************************************************************************)
(* Helpers over the trace.                                                 *)
(***************************************************************************)
\* the LTE band under test (0 outside the LTE part of SARF)
CurrentBand == IF iLteBand = 0 THEN 0 ELSE LteBands[iLteBand]
\* a step that asks the readiness gate first: ready is the gate's answer, dev
\* the device its ADB commands were addressed to ("none": no command went out)
AdbEntry(step, env, res, ready, dev) ==
    [step |-> step, env |-> env, res |-> res, band |-> CurrentBand,
     ready |-> ready, dev |-> dev]
Entry(step, env, res) == AdbEntry(step, env, res, "na", "none")
\* the devices ADB commands went to so far
AdbTargets == {trace[i].dev : i \in 1..Len(trace)} \ {"none"}
Steps == {trace[i].step : i \in 1..Len(trace)}
Did(step) == step \in Steps
Count(step) == Cardinality({i \in 1..Len(trace) : trace[i].step = step})
ResOf(step) == {trace[i].res : i \in {j \in 1..Len(trace) : trace[j].step = step}}
EnvOf(step) == {trace[i].env : i \in {j \in 1..Len(trace) : trace[j].step = step}}
Before(a, b) ==
    \A j \in 1..Len(trace) : trace[j].step = b =>
        \E i \in 1..(j - 1) : trace[i].step = a

(***************************************************************************)
(* UART command exchange.                                                  *)
(***************************************************************************)
ExpectedResponse(strCommand) ==
    CASE strCommand = "REQ_DC_IN"     -> "RES_DC_IN_OK"
      [] strCommand = "REQ_DC_OUT"    -> "RES_DC_OUT_OK"
      [] strCommand = "REQ_POWER_ON"  -> "RES_POWER_ON_OK"
      [] strCommand = "REQ_POWER_OFF" -> "RES_POWER_OFF_OK"
      [] strCommand = "REQ_BOOT_ON"   -> "RES_BOOT_ON_OK"
      [] strCommand = "REQ_BOOT_OFF"  -> "RES_BOOT_OFF_OK"
      [] strCommand = "REQ_INIT"      -> "RES_INIT_OK"
      [] OTHER                        -> "None"

\* common.py: True / False for a known token, None (falls off the end) for an
\* unknown one, False on serial.SerialException; any other exception escapes.
sendUartCommand(strCommand, io, rx) ==
    IF io = "SerialException" THEN "False"
    ELSE IF io = "OSError" THEN "raise"
    ELSE IF ExpectedResponse(strCommand) # "None"
         THEN (IF ExpectedResponse(strCommand) \in rx THEN "True" ELSE "False")
         ELSE "None"

\* CT1_DL.py: the response text, or None on serial.SerialException.
send_uart_command(command, io, rx) ==
    IF io = "SerialException" THEN [kind |-> "None", data |-> {}]
    ELSE IF io = "OSError" THEN [kind |-> "raise", data |-> {}]
    ELSE [kind |-> "response", data |-> rx]

\* mutant: any standard token counts, whatever was expected
check_uart_response_AnyStandard(response, expected) ==
    IF response.kind = "None" THEN "False"
    ELSE IF \E std_resp \in standard_responses : std_resp \in response.data
         THEN "True" ELSE "False"

check_uart_response(response, expected) ==
    IF response.kind = "None" THEN "False"
    ELSE IF expected = "None"
         THEN (IF \E std_resp \in standard_responses : std_resp \in response.data
               THEN "True" ELSE "False")
         ELSE (IF expected \in response.data THEN "True" ELSE "False")

\* The truth value a station procedure sees for one UART command.
UartStep(strCommand, io, rx) ==
    IF variant = "CT1"
    THEN sendUartCommand(strCommand, io, rx)
    ELSE LET response == send_uart_command(strCommand, io, rx) IN
         IF response.kind = "raise" THEN "raise"
         ELSE check_uart_response(response, ExpectedResponse(strCommand))

\* whether the device answered the command with its own RES_*_OK token
UartEnv(strCommand, io, rx) ==
    IF io = "ok" /\ ExpectedResponse(strCommand) \in rx THEN "ok" ELSE "bad"

Truthy(v) == v = "True"

(***************************************************************************)
(* External tools.                                                         *)
(***************************************************************************)
\* parameter names of the two command runners
runCommandParams == {"strCommand", "strCwd"}
run_commandParams == {"command", "cwd"}

HasMaskromLine(lstOutputLines) ==
    \E i \in 1..Len(lstOutputLines) :
        "DevNo=" \in lstOutputLines[i] /\ "Mode=Maskrom" \in lstOutputLines[i]
HasUpgradeOk(lstOutputLines) ==
    \E i \in 1..Len(lstOutputLines) : "Upgrade firmware ok" \in lstOutputLines[i]

\* common.py calls runCommand(strCommand, cwd=strToolPath): a keyword the
\* function does not have is a TypeError, raised before the tool is started.
checkDeviceConnection(lstOutputLines) ==
    IF "cwd" \notin runCommandParams THEN "raise"
    ELSE IF HasMaskromLine(lstOutputLines) THEN "True" ELSE "False"

check_device_connection(output_lines) ==
    IF "cwd" \notin run_commandParams THEN "raise"
    ELSE IF HasMaskromLine(output_lines) THEN "True" ELSE "False"

updateFirmware(lstOutputLines) ==
    IF "cwd" \notin runCommandParams THEN "raise"
    ELSE IF HasUpgradeOk(lstOutputLines) THEN "True" ELSE "False"

update_firmware(output_lines) ==
    IF "cwd" \notin run_commandParams THEN "raise"
    ELSE IF HasUpgradeOk(output_lines) THEN "True" ELSE "False"

ConnectionStep(out) ==
    IF variant = "CT1" THEN checkDeviceConnection(out) ELSE check_device_connection(out)
FlashStep(out) ==
    IF variant = "CT1" THEN updateFirmware(out) ELSE update_firmware(out)

(***************************************************************************)
(* RF configuration primitives and instruments (SARF).                     *)
(***************************************************************************)
\* ready: what checkAndGetAdbDevice reported; io: "ok" or "raise"
settingWiFi11Gchannel7(ready, io) ==
    IF ~ready THEN "False"
    ELSE IF io = "raise" THEN "False"
    ELSE "True"

\* io: "ok", "raise", "push_fails" (adb push returned non-zero)
settingBTTXTest(ready, io) ==
    IF ~ready THEN "False"
    ELSE IF io = "raise" THEN "False"
    ELSE IF io = "push_fails" THEN "False"
    ELSE "True"

\* the first line holding "Signal power:" decides; its value must parse
getIQxelValue(io, lstOutputLines) ==
    IF io = "raise" THEN "None"
    ELSE LET hits == {i \in 1..Len(lstOutputLines) : lstOutputLines[i] # "other"} IN
         IF hits = {} THEN "None"
         ELSE LET first == CHOOSE i \in hits : \A j \in hits : i <= j IN
              IF lstOutputLines[first] = "Signal power: -12.5dBm"
              THEN "-12.5" ELSE "None"

StartsWithGPIB(res) == res \in {"GPIB0::22::INSTR"}

setupGPIB(io, resources) ==
    IF io = "raise"
    THEN [bCheckGPIB |-> FALSE, strGPIBAddress |-> "None"]
    ELSE LET hits == {i \in 1..Len(resources) : StartsWithGPIB(resources[i])} IN
         [bCheckGPIB |-> TRUE,
          strGPIBAddress |-> IF hits = {} THEN "None"
                             ELSE resources[CHOOSE i \in hits : \A j \in hits : i <= j]]

\* io: "ok", "raise" (open_resource or the *IDN? query failed)
connectGPIB(io) == IF io = "raise" THEN "None" ELSE "open"

sendGPIBCommand(inst, io) == IF io = "raise" \/ inst # "open" THEN "False" ELSE "True"

\* response: "None" (query raised), a number's text, or text that is no number
queryGPIB(inst, response) == IF inst # "open" THEN "None" ELSE response

\* instrument.close() on None or on a closed handle raises inside closeGPIB,
\* which catches it: the handle state is what matters
closeGPIB(inst) == IF inst = "open" THEN "closed" ELSE inst

\* devices that may be attached; the listing is taken to be stable during a
\* run, so that auto-detection resolves to the same device every time
Devices == {"dev1", "dev2"}
AutoDetected == IF AdbTargets = {} THEN Devices ELSE AdbTargets

\* checkAndGetAdbDevice(strDeviceId) when the device is ready: the given
\* serial, or the first usable entry of the listing
ResolvedDevice(strDeviceId, first) == IF strDeviceId # "None" THEN strDeviceId ELSE first

\* mutant: the commands go out whatever the gate said
RfCommandsTo_IgnoresGate(ready, strDeviceId) == strDeviceId

\* `if not bAdbDeviceReady: return ...` stands before the first command built
\* from lstAdbPrefix; all commands of the call carry the prefix of strDeviceId
RfCommandsTo(ready, strDeviceId) == IF ready THEN strDeviceId ELSE "none"

\* "True" / "False" of a Boolean
BoolText(b) == IF b THEN "True" ELSE "False"

SupportedBand(iBand) == iBand = 1 \/ iBand = 26

\* io: "ok", "raise", "rftest_fails", "ltecmd_fails" (non-zero return codes)
settingLTETXTest(iBand, ready, io) ==
    IF ~ready THEN "False"
    ELSE IF io = "raise" THEN "False"
    ELSE IF io = "rftest_fails" THEN "False"
    ELSE IF ~SupportedBand(iBand) THEN "False"
    ELSE IF io = "ltecmd_fails" THEN "False"
    ELSE "True"

NoResult == [none |-> TRUE, value |-> 0]
Measured(v) == [none |-> FALSE, value |-> v]

RECURSIVE RxAttempts(_, _, _)
RxAttempts(retryCount, captures, fThreshold) ==
    IF retryCount >= maxRetry THEN NoResult
    ELSE LET matches == captures[retryCount + 1] IN
         IF matches # <<>> /\ matches[Len(matches)] >= fThreshold
         THEN Measured(matches[Len(matches)])
         ELSE RxAttempts(retryCount + 1, captures, fThreshold)

\* captures[k]: the +QRXFTM values in the rxlog read by attempt k
getLTERXResult(iBand, fThreshold, ready, io, captures) ==
    IF ~ready THEN NoResult
    ELSE IF io = "raise" THEN NoResult
    ELSE IF ~SupportedBand(iBand) THEN NoResult
    ELSE RxAttempts(0, captures, fThreshold)

(***************************************************************************)
(* sendUartCommand / send_uart_command, statement by statement.            *)
(* What the port delivers at one read is a piece of text: a whole RES_*    *)
(* token, the first or the second half of one, or other bytes.             *)
(***************************************************************************)
\* passes of the receive loop that fit into nTimeout (each pass sleeps at
\* least 10 ms, so the clock advances on every pass)
MaxChunks == 3

\* the seven known tokens and one the table does not know
UartCommands == UartTokens \cup {"REQ_RESET"}

Piece(tok, part) == [tok |-> tok, part |-> part]
Junk == Piece("junk", "whole")
\* a RES_* token that answers some other command
OtherResponse(strCommand) ==
    IF strCommand = "REQ_INIT" THEN "RES_DC_IN_OK" ELSE "RES_INIT_OK"
\* what the port can deliver at one read while strCommand is exchanged
RxPieces(strCommand) ==
    {Junk, Piece(OtherResponse(strCommand), "whole")}
    \cup (IF ExpectedResponse(strCommand) = "None" THEN {}
          ELSE {Piece(ExpectedResponse(strCommand), part) :
                    part \in {"whole", "head", "tail"}})

\* Python's `strExpectedResponse in strResponse` on the accumulated text
IsSubstring(tok, strResponse) ==
    \E i \in 1..Len(strResponse) :
        \/ strResponse[i] = Piece(tok, "whole")
        \/ /\ i < Len(strResponse)
           /\ strResponse[i] = Piece(tok, "head")
           /\ strResponse[i + 1] = Piece(tok, "tail")

\* fElapsed: time since fStartTime, in ticks of which MaxChunks make nTimeout;
\* nPasses: passes of the receive loop; why: what ended the loop; expected and
\* chk: argument and result of check_uart_response on the value returned
UartIdle == [pc |-> "idle", strCommand |-> "None", objSer |-> "unbound",
             strResponse |-> <<>>, ret |-> "unset", err |-> "none",
             bWaitForResponse |-> TRUE, fElapsed |-> 0, nPasses |-> 0,
             why |-> "none", expected |-> "None", chk |-> "unset"]

UartAt(at) == uart.pc = at

UartCall ==
    /\ UartAt("idle") /\ gate.pc = "idle" /\ lterx.pc = "idle"
    /\ \E strCommand \in UartCommands, bWaitForResponse \in BOOLEAN :
          uart' = [UartIdle EXCEPT !.pc = "open", !.strCommand = strCommand,
                                   !.bWaitForResponse = bWaitForResponse]
    /\ UNCHANGED <<gate, lterx, progVars>>

\* An exception inside the try block: `except serial.SerialException` returns
\* False (None in CT1_DL.py); any other exception leaves the function.  No
\* statement on this path closes the port: an open one stays open unless the
\* interpreter happens to finalize the unreachable Serial object (finalized).
UartExcept(e) ==
    \E finalized \in BOOLEAN :
        uart' = [uart EXCEPT !.pc = "done", !.err = e,
                             !.objSer = IF @ = "open" /\ finalized THEN "closed" ELSE @,
                             !.ret = IF e = "SerialException"
                                     THEN (IF variant = "CT1" THEN "False" ELSE "None")
                                     ELSE "raise"]

\* objSer = serial.Serial(strComPort, nBaudrate, timeout=nTimeout)
UartOpen ==
    /\ UartAt("open")
    /\ \E io \in UartIO :
          IF io = "ok"
          THEN uart' = [uart EXCEPT !.pc = "reset", !.objSer = "open"]
          ELSE UartExcept(io)
    /\ UNCHANGED <<gate, lterx, progVars>>

\* objSer.reset_input_buffer()
UartReset ==
    /\ UartAt("reset")
    /\ \E io \in UartIO :
          IF io = "ok" THEN uart' = [uart EXCEPT !.pc = "write"] ELSE UartExcept(io)
    /\ UNCHANGED <<gate, lterx, progVars>>

\* objSer.write(strCommand.encode('utf-8'))
UartWrite ==
    /\ UartAt("write")
    /\ \E io \in UartIO :
          IF io = "ok"
          THEN uart' = [uart EXCEPT !.pc = IF uart.bWaitForResponse
                                           THEN "read" ELSE "close"]
          ELSE UartExcept(io)
    /\ UNCHANGED <<gate, lterx, progVars>>

\* mutant: the loop does not look at the clock
UartLoopCond_NoTimeout(fNow) == TRUE

\* while (time.time() - fStartTime) < nTimeout
UartLoopCond(fNow) == fNow < MaxChunks

\* no bytes waiting
NoData == Piece("none", "whole")

\* one pass of the receive loop: waiting bytes are read and appended; when
\* there is some text and half a second has gone by (bHalfSecond), the pass
\* sleeps 0.5 s and leaves the loop if nothing more is waiting (~bMore); it
\* ends with a sleep of 10 ms.  in_waiting / read may raise.
UartRead ==
    /\ UartAt("read")
    /\ UartLoopCond(uart.fElapsed)
    /\ \/ \E objData \in RxPieces(uart.strCommand) \cup {NoData},
             bHalfSecond \in BOOLEAN, bMore \in BOOLEAN :
             LET strResponse == IF objData = NoData THEN uart.strResponse
                                ELSE Append(uart.strResponse, objData)
                 bQuietTest == strResponse # <<>> /\ bHalfSecond /\ uart.fElapsed > 0
             IN IF bQuietTest /\ ~bMore
                THEN uart' = [uart EXCEPT !.strResponse = strResponse,
                                          !.nPasses = @ + 1, !.fElapsed = @ + 1,
                                          !.why = "quiet", !.pc = "close"]
                ELSE uart' = [uart EXCEPT !.strResponse = strResponse,
                                          !.nPasses = @ + 1,
                                          !.fElapsed = @ + (IF bQuietTest THEN 2 ELSE 1)]
       \/ \E e \in UartIO \ {"ok"} : UartExcept(e)
    /\ UNCHANGED <<gate, lterx, progVars>>

\* the loop condition fails: the overall timeout has elapsed
UartLoopExit ==
    /\ UartAt("read")
    /\ ~UartLoopCond(uart.fElapsed)
    /\ uart' = [uart EXCEPT !.why = "timeout", !.pc = "close"]
    /\ UNCHANGED <<gate, lterx, progVars>>

\* mutant: a token without an expected response counts as answered
UartResult_UnknownIsTrue(strCommand, strResponse) ==
    IF variant = "CT1_DL" THEN "response"
    ELSE IF ExpectedResponse(strCommand) = "None" THEN "True"
    ELSE IF IsSubstring(ExpectedResponse(strCommand), strResponse)
         THEN "True" ELSE "False"

\* what the call returns once the port is closed: True / False for a known
\* token, None for an unknown one; CT1_DL.py returns the text
UartResult(strCommand, strResponse) ==
    IF variant = "CT1_DL" THEN "response"
    ELSE IF ExpectedResponse(strCommand) = "None" THEN "None"
    ELSE IF IsSubstring(ExpectedResponse(strCommand), strResponse)
         THEN "True" ELSE "False"

\* objSer.close() and the test of the accumulated text
UartClose ==
    /\ UartAt("close")
    /\ uart' = [uart EXCEPT !.pc = "done", !.objSer = "closed",
                            !.ret = UartResult(uart.strCommand, uart.strResponse)]
    /\ UNCHANGED <<gate, lterx, progVars>>

\* the RES_* tokens that occur in the text
TokensIn(strResponse) ==
    {std_resp \in standard_responses : IsSubstring(std_resp, strResponse)}
\* the value send_uart_command returned, as check_uart_response sees it
ResponseOf(ret, strResponse) ==
    IF ret = "None" THEN [kind |-> "None", data |-> {}]
    ELSE [kind |-> "response", data |-> TokensIn(strResponse)]

\* CT1_DL.py: the caller hands the value returned to check_uart_response,
\* with the token it expects or with none
UartCheck ==
    /\ UartAt("done") /\ variant = "CT1_DL"
    /\ uart.ret \in {"None", "response"} /\ uart.chk = "unset"
    /\ \E expected \in {"None", ExpectedResponse(uart.strCommand),
                         OtherResponse(uart.strCommand)} :
          uart' = [uart EXCEPT !.expected = expected,
                               !.chk = check_uart_response(
                                           ResponseOf(uart.ret, uart.strResponse),
                                           expected)]
    /\ UNCHANGED <<gate, lterx, progVars>>

\* the call is over; the next one starts afresh
UartReturn ==
    /\ UartAt("done")
    /\ uart' = UartIdle
    /\ UNCHANGED <<gate, lterx, progVars>>

UartCallStep ==
    \/ UartCall \/ UartOpen \/ UartReset \/ UartWrite \/ UartRead \/ UartLoopExit
    \/ UartClose \/ UartCheck \/ UartReturn

(***************************************************************************)
(* checkAndGetAdbDevice, statement by statement.                           *)
(***************************************************************************)
\* the default of the parameter nMaxRetries of checkAndGetAdbDevice
gate_nMaxRetries == 30

\* one line of `adb devices` below the header: serial and state
AdbLine(id, state) == [id |-> id, state |-> state]
AdbLines == {AdbLine("dev1", "device"), AdbLine("dev1", "offline"),
             AdbLine("dev2", "device"), AdbLine("emulator-5554", "device")}
\* longest device listing, in lines
MaxAdbLines == 2
AdbListings == SeqsUpTo(AdbLines, MaxAdbLines)

\* `strDeviceId in strDevicesOutput`: the serial occurs somewhere in the text
ListingNames(strDeviceId, lstLines) ==
    \E i \in 1..Len(lstLines) : lstLines[i].id = strDeviceId
\* `'device' in strLine and 'emulator' not in strLine`
IsUsableLine(strLine) ==
    strLine.state = "device" /\ strLine.id # "emulator-5554"
UsableLines(lstLines) == {i \in 1..Len(lstLines) : IsUsableLine(lstLines[i])}
\* mutant: the last usable line is taken
FirstUsable_Last(lstLines) ==
    lstLines[CHOOSE i \in UsableLines(lstLines) : \A j \in UsableLines(lstLines) : i >= j]

\* the for loop over lstLines[1:] stops (break) at the first usable line
FirstUsable(lstLines) ==
    lstLines[CHOOSE i \in UsableLines(lstLines) : \A j \in UsableLines(lstLines) : i <= j]

\* lstAdbPrefix = ['adb'], extended by ['-s', strDeviceId] when there is one
AdbPrefix(strDeviceId) ==
    IF strDeviceId # "None" THEN <<"adb", "-s", strDeviceId>> ELSE <<"adb">>

\* given: the argument of the call; lstLines: the listing last polled; retId
\* and lstAdbPrefix: the second and third value returned (<<>> for None)
GateIdle == [pc |-> "idle", strDeviceId |-> "None", bAdbDeviceReady |-> FALSE,
             nRetryCount |-> 0, nPolls |-> 0, bRaised |-> FALSE, ret |-> "unset",
             given |-> "None", lstLines |-> <<>>, retId |-> "None",
             lstAdbPrefix |-> <<>>]

GateCall ==
    /\ gate.pc = "idle" /\ uart.pc = "idle" /\ lterx.pc = "idle"
    /\ \E strDeviceId \in {"None", "dev1"} :
          gate' = [GateIdle EXCEPT !.pc = "loop", !.strDeviceId = strDeviceId,
                                   !.given = strDeviceId]
    /\ UNCHANGED <<uart, lterx, progVars>>

\* mutant: one poll too many
GateLoopCond_OffByOne(bAdbDeviceReady, nRetries) ==
    ~bAdbDeviceReady /\ nRetries <= gate_nMaxRetries

\* while not bAdbDeviceReady and nRetryCount < nMaxRetries
GateLoopCond(bAdbDeviceReady, nRetries) ==
    ~bAdbDeviceReady /\ nRetries < gate_nMaxRetries

\* one pass of the loop: the listing is polled; it raises, or shows the device
\* (break), or does not (count, sleep 1 s)
GatePoll ==
    /\ gate.pc = "loop"
    /\ GateLoopCond(gate.bAdbDeviceReady, gate.nRetryCount)
    /\ \/ gate' = [gate EXCEPT !.nPolls = @ + 1, !.nRetryCount = @ + 1,
                                !.bRaised = TRUE]
       \/ \E lstLines \in AdbListings :
             LET bReady == IF gate.strDeviceId # "None"
                           THEN ListingNames(gate.strDeviceId, lstLines)
                           ELSE UsableLines(lstLines) # {}
                 strId  == IF gate.strDeviceId = "None" /\ bReady
                           THEN FirstUsable(lstLines).id ELSE gate.strDeviceId
             IN gate' = [gate EXCEPT !.nPolls = @ + 1,
                                     !.lstLines = lstLines,
                                     !.bAdbDeviceReady = bReady,
                                     !.strDeviceId = strId,
                                     !.nRetryCount = IF bReady THEN @ ELSE @ + 1,
                                     !.pc = IF bReady THEN "after" ELSE "loop"]
    /\ UNCHANGED <<uart, lterx, progVars>>

GateLoopExit ==
    /\ gate.pc = "loop"
    /\ ~GateLoopCond(gate.bAdbDeviceReady, gate.nRetryCount)
    /\ gate' = [gate EXCEPT !.pc = "after"]
    /\ UNCHANGED <<uart, lterx, progVars>>

\* return False, None, None  /  return True, strDeviceId, lstAdbPrefix
GateResult ==
    /\ gate.pc = "after"
    /\ gate' = [gate EXCEPT !.pc = "done",
                            !.ret = IF gate.bAdbDeviceReady THEN "True" ELSE "False",
                            !.retId = IF gate.bAdbDeviceReady
                                      THEN gate.strDeviceId ELSE "None",
                            !.lstAdbPrefix = IF gate.bAdbDeviceReady
                                             THEN AdbPrefix(gate.strDeviceId) ELSE <<>>]
    /\ UNCHANGED <<uart, lterx, progVars>>

GateReturn ==
    /\ gate.pc = "done"
    /\ gate' = GateIdle
    /\ UNCHANGED <<uart, lterx, progVars>>

GateCallStep == GateCall \/ GatePoll \/ GateLoopExit \/ GateResult \/ GateReturn

(***************************************************************************)
(* getLTERXResult, statement by statement.                                 *)
(***************************************************************************)
\* lstCleanup: the cleanup commands sent to the device so far;
\* matches: the +QRXFTM values in rxlog.txt as last read; the log is written
\* by a background `cat` and grows from one attempt to the next
RxIdle == [pc |-> "idle", iLteBand |-> 0, retryCount |-> 0, nAttempts |-> 0,
           nBelow |-> 0, bRaised |-> FALSE, ret |-> NoResult, matches |-> <<>>,
           bRead |-> FALSE, bAdbDeviceReady |-> FALSE, lstCleanup |-> <<>>]

\* bands a caller may pass: the two supported ones and another
RxBands == {1, 26, 3}

RxCall ==
    /\ lterx.pc = "idle" /\ uart.pc = "idle" /\ gate.pc = "idle"
    /\ \E iBand \in RxBands, bAdbDeviceReady \in BOOLEAN, log \in RxCaptures :
          lterx' = [RxIdle EXCEPT !.iLteBand = iBand,
                                  !.bAdbDeviceReady = bAdbDeviceReady,
                                  !.matches = IF bAdbDeviceReady THEN log ELSE <<>>,
                                  !.pc = IF bAdbDeviceReady THEN "loop" ELSE "done"]
    /\ UNCHANGED <<uart, gate, progVars>>

\* mutant: one attempt too many
RxLoopCond_OffByOne(retryCount) == retryCount <= maxRetry

\* while retryCount < maxRetry
RxLoopCond(retryCount) == retryCount < maxRetry

\* mutant: the oldest match is taken
lastMatch_First(matches) == matches[1]

\* lastMatch = matches[-1]
lastMatch(matches) == matches[Len(matches)]

\* one pass of the loop: an unsupported band returns None at once; otherwise
\* the measurement is started and the log read (one attempt), which raises,
\* or yields a value at or above the threshold (return it), or does not
RxAttempt ==
    /\ lterx.pc = "loop"
    /\ RxLoopCond(lterx.retryCount)
    /\ IF ~SupportedBand(lterx.iLteBand)
       THEN lterx' = [lterx EXCEPT !.pc = "finally"]
       ELSE \/ lterx' = [lterx EXCEPT !.nAttempts = @ + 1, !.bRaised = TRUE,
                                      !.pc = "finally"]
            \/ \E new \in RxCaptures :
                  LET matches == lterx.matches \o new IN
                  IF matches # <<>> /\ lastMatch(matches) >= fRxThreshold
                  THEN lterx' = [lterx EXCEPT !.nAttempts = @ + 1, !.pc = "finally",
                                              !.matches = matches, !.bRead = TRUE,
                                              !.ret = Measured(lastMatch(matches))]
                  ELSE lterx' = [lterx EXCEPT !.nAttempts = @ + 1, !.nBelow = @ + 1,
                                              !.matches = matches, !.bRead = TRUE,
                                              !.retryCount = @ + 1]
    /\ UNCHANGED <<uart, gate, progVars>>

RxLoopExit ==
    /\ lterx.pc = "loop"
    /\ ~RxLoopCond(lterx.retryCount)
    /\ lterx' = [lterx EXCEPT !.pc = "finally"]
    /\ UNCHANGED <<uart, gate, progVars>>

\* mutant: the function leaves without the finally block
RxFinally_NoCleanup ==
    /\ lterx.pc = "finally"
    /\ lterx' = [lterx EXCEPT !.pc = "done"]
    /\ UNCHANGED <<uart, gate, progVars>>

\* the finally block stops the capture (pkill -f "cat /dev/ttyUSB2") and
\* removes the log (rm -f logPath); the value decided before stands.  The
\* two commands print no modem text, so the reading that can fail inside
\* the loop has nothing to fail on here.
RxFinally ==
    /\ lterx.pc = "finally"
    /\ lterx' = [lterx EXCEPT !.pc = "done",
                              !.lstCleanup = @ \o <<"pkill", "rm">>]
    /\ UNCHANGED <<uart, gate, progVars>>

RxReturn ==
    /\ lterx.pc = "done"
    /\ lterx' = RxIdle
    /\ UNCHANGED <<uart, gate, progVars>>

RxCallStep == RxCall \/ RxAttempt \/ RxLoopExit \/ RxFinally \/ RxReturn

(***************************************************************************)
(* runCommand / run_command, statement by statement: the main thread and   *)
(* the two readStream threads, which share strCurrentLine and              *)
(* lstOutputLines.  A character is one marker of the tool, another         *)
(* character, or the newline "\n"; a line is a sequence of characters.     *)
(***************************************************************************)
\* what the tool started by fn may write to its stdout
StdoutChars(fn) ==
    CASE fn = "checkDeviceConnection" -> {"DevNo=", "Mode=Maskrom", "\n"}
      [] fn = "updateFirmware" -> {"Upgrade firmware ok", "\n"}
      [] OTHER -> {"o", "\n"}
StderrChars == {"x", "\n"}
Threads == {"stdout", "stderr"}
ToolFunctions == {"checkDeviceConnection", "updateFirmware"}

ThreadIdle == [pc |-> "idle", strChar |-> "", tmp |-> <<>>]
\* stream: the bytes not read yet; wrote: all the bytes of the two streams
CmdIdle == [pc |-> "idle", fn |-> "None",
            stream |-> [th \in Threads |-> <<>>],
            wrote |-> [th \in Threads |-> <<>>],
            t |-> [th \in Threads |-> ThreadIdle],
            strCurrentLine |-> <<>>, lstOutputLines |-> <<>>,
            bTimedOut |-> FALSE, ret |-> "unset"]

\* the keyword `cwd=` of the call is a parameter of the runner of the variant
CwdAccepted ==
    "cwd" \in (IF variant = "CT1" THEN runCommandParams ELSE run_commandParams)

\* the markers found in one returned line
LineMarkers(strLine) == {strLine[i] : i \in 1..Len(strLine)} \cap ToolMarkers
MarkerLines(lstOutputLines) ==
    [i \in 1..Len(lstOutputLines) |-> LineMarkers(lstOutputLines[i])]

\* what the function called returns for the list runCommand gave
CmdResult(fn, lstOutputLines) ==
    CASE fn = "checkDeviceConnection" -> ConnectionStep(MarkerLines(lstOutputLines))
      [] fn = "updateFirmware" -> FlashStep(MarkerLines(lstOutputLines))
      [] OTHER -> "lines"

\* the call: of runCommand itself, or of a function that passes cwd= to it
CmdCall ==
    /\ cmd.pc = "idle" /\ uart.pc = "idle" /\ gate.pc = "idle" /\ lterx.pc = "idle"
    /\ \E fn \in ToolFunctions \cup {"runCommand"} :
       \E out \in SeqsUpTo(StdoutChars(fn), MaxStdout),
          err \in SeqsUpTo(StderrChars, MaxStderr) :
          IF fn \in ToolFunctions /\ ~CwdAccepted
          THEN cmd' = [CmdIdle EXCEPT !.pc = "done", !.fn = fn, !.ret = "raise"]
          ELSE cmd' = [CmdIdle EXCEPT
                          !.pc = "wait", !.fn = fn,
                          !.stream = [th \in Threads |->
                                         IF th = "stdout" THEN out ELSE err],
                          !.wrote = [th \in Threads |->
                                        IF th = "stdout" THEN out ELSE err],
                          !.t = [th \in Threads |-> [ThreadIdle EXCEPT !.pc = "read"]]]
    /\ UNCHANGED <<uart, gate, lterx>>
    /\ UNCHANGED <<variant, objArgs, trace>>
    /\ UNCHANGED mainVars
    /\ UNCHANGED stVars
    /\ UNCHANGED monVars

CmdFrame ==
    /\ UNCHANGED <<uart, gate, lterx>>
    /\ UNCHANGED <<variant, objArgs, trace>>
    /\ UNCHANGED mainVars
    /\ UNCHANGED stVars
    /\ UNCHANGED monVars

\* the threads are followed until the joins of the main thread return
ThreadAt(th, at) == cmd.pc = "wait" /\ cmd.t[th].pc = at

\* byteChar = objStream.read(1); an empty read ends the thread
CmdRead(th) ==
    /\ ThreadAt(th, "read")
    /\ IF cmd.stream[th] = <<>>
       THEN cmd' = [cmd EXCEPT !.t[th].pc = "eof"]
       ELSE cmd' = [cmd EXCEPT !.stream[th] = Tail(@),
                               !.t[th].strChar = Head(cmd.stream[th]),
                               !.t[th].pc = IF Head(cmd.stream[th]) = "\n"
                                            THEN "nl_test" ELSE "ch_load"]
    /\ CmdFrame

\* if strCurrentLine:
CmdNlTest(th) ==
    /\ ThreadAt(th, "nl_test")
    /\ cmd' = [cmd EXCEPT !.t[th].pc = IF cmd.strCurrentLine # <<>>
                                       THEN "nl_append" ELSE "read"]
    /\ CmdFrame

\* lstOutputLines.append(strCurrentLine)
CmdNlAppend(th) ==
    /\ ThreadAt(th, "nl_append")
    /\ cmd' = [cmd EXCEPT !.lstOutputLines = Append(@, cmd.strCurrentLine),
                          !.t[th].pc = "nl_clear"]
    /\ CmdFrame

\* strCurrentLine = ""
CmdNlClear(th) ==
    /\ ThreadAt(th, "nl_clear")
    /\ cmd' = [cmd EXCEPT !.strCurrentLine = <<>>, !.t[th].pc = "read"]
    /\ CmdFrame

\* strCurrentLine += strChar, the read of the shared variable ...
CmdChLoad(th) ==
    /\ ThreadAt(th, "ch_load")
    /\ cmd' = [cmd EXCEPT !.t[th].tmp = cmd.strCurrentLine, !.t[th].pc = "ch_store"]
    /\ CmdFrame

\* ... and the write of the sum
CmdChStore(th) ==
    /\ ThreadAt(th, "ch_store")
    /\ cmd' = [cmd EXCEPT !.strCurrentLine = Append(cmd.t[th].tmp, cmd.t[th].strChar),
                          !.t[th].tmp = <<>>, !.t[th].strChar = "",
                          !.t[th].pc = "read"]
    /\ CmdFrame

ThreadsOver == \A th \in Threads : cmd.t[th].pc = "eof"

\* objProcess.wait(), then join(timeout=1.0) of each thread: the joins return
\* when the threads are over, or after their timeout while a thread still runs
CmdJoin ==
    /\ cmd.pc = "wait"
    /\ cmd' = [cmd EXCEPT !.pc = "tail", !.bTimedOut = ~ThreadsOver]
    /\ CmdFrame

\* if strCurrentLine: lstOutputLines.append(strCurrentLine); return
CmdTail ==
    /\ cmd.pc = "tail"
    /\ LET lstOutputLines == IF cmd.strCurrentLine # <<>>
                             THEN Append(cmd.lstOutputLines, cmd.strCurrentLine)
                             ELSE cmd.lstOutputLines IN
       cmd' = [cmd EXCEPT !.pc = "done", !.lstOutputLines = lstOutputLines,
                          !.ret = CmdResult(cmd.fn, lstOutputLines)]
    /\ CmdFrame

CmdReturn ==
    /\ cmd.pc = "done"
    /\ cmd' = CmdIdle
    /\ CmdFrame

CmdThreadStep(th) ==
    \/ CmdRead(th) \/ CmdNlTest(th) \/ CmdNlAppend(th) \/ CmdNlClear(th)
    \/ CmdChLoad(th) \/ CmdChStore(th)

CmdCallStep ==
    \/ CmdCall \/ CmdJoin \/ CmdTail \/ CmdReturn
    \/ \E th \in Threads : CmdThreadStep(th)

(***************************************************************************)
(* The primitives on their own: each is called with any argument and       *)
(* followed to its return, one call at a time.                             *)
(***************************************************************************)
UnitInit ==
    /\ variant \in {"CT1", "CT1_DL"}
    /\ objArgs = [StationName |-> "None", comport |-> "None", device |-> "None",
                  tool |-> FALSE, img |-> FALSE]
    /\ pc = "start"
    /\ bSuccess = "unset"
    /\ exitCode = -1
    /\ st_pc = "idle"
    /\ st_ret = "unset"
    /\ nRetryCount = 0
    /\ iLteBand = 0
    /\ instrument = "unbound"
    /\ mon_pc = "idle"
    /\ mon_ret = "unset"
    /\ objProcess = "none"
    /\ pipe = <<>>
    /\ fElapsed = 0
    /\ trace = <<>>
    /\ uart = UartIdle
    /\ gate = GateIdle
    /\ lterx = RxIdle
    /\ cmd = CmdIdle

UnitNext == UartCallStep \/ GateCallStep \/ RxCallStep

UnitSpec == UnitInit /\ [][UnitNext]_vars

\* runCommand and the two functions that call it, on their own
ToolSpec == UnitInit /\ [][CmdCallStep]_vars

(***************************************************************************)
(* Initial state: the command line and the disk are the run's inputs.      *)
(***************************************************************************)
StationNames == {"ATPFWDL", "SARF", "PreUI", "None"}

Init ==
    /\ variant \in {"CT1", "CT1_DL"}
    /\ objArgs \in [StationName : StationNames,
                    comport : {"None", "found", "notfound"},
                    device : {"None", "dev1"},
                    tool : BOOLEAN,
                    img : BOOLEAN]
    /\ pc = "start"
    /\ bSuccess = "unset"
    /\ exitCode = -1
    /\ st_pc = "idle"
    /\ st_ret = "unset"
    /\ nRetryCount = 0
    /\ iLteBand = 0
    /\ instrument = "unbound"
    /\ mon_pc = "idle"
    /\ mon_ret = "unset"
    /\ objProcess = "none"
    /\ pipe = <<>>
    /\ fElapsed = 0
    /\ trace = <<>>
    /\ uart = UartIdle
    /\ gate = GateIdle
    /\ lterx = RxIdle
    /\ cmd = CmdIdle

(***************************************************************************)
(* Run driver.                                                             *)
(***************************************************************************)
\* the station procedure main() selects, or "reject" (main returns False)
\* mutant: the firmware image is not looked for
Dispatch_NoImageCheck ==
    IF ~objArgs.tool THEN "reject"
    ELSE IF objArgs.comport = "notfound" THEN "reject"
    ELSE IF objArgs.StationName = "ATPFWDL"
         THEN (IF objArgs.comport = "found" THEN "ATPFWDL" ELSE "reject")
    ELSE IF objArgs.StationName = "SARF" /\ variant = "CT1"
         THEN (IF objArgs.comport = "found" THEN "SARF" ELSE "reject")
    ELSE IF objArgs.StationName # "None" THEN "generic"
    ELSE "reject"

\* main(): the checks before the dispatch, and the dispatch on StationName
Dispatch ==
    IF ~objArgs.tool THEN "reject"
    ELSE IF ~objArgs.img THEN "reject"
    ELSE IF objArgs.comport = "notfound" THEN "reject"
    ELSE IF objArgs.StationName = "ATPFWDL"
         THEN (IF objArgs.comport = "found" THEN "ATPFWDL" ELSE "reject")
    ELSE IF objArgs.StationName = "SARF" /\ variant = "CT1"
         THEN (IF objArgs.comport = "found" THEN "SARF" ELSE "reject")
    ELSE IF objArgs.StationName # "None" THEN "generic"
    ELSE "reject"

MainDispatch ==
    /\ pc = "start"
    /\ CASE Dispatch = "ATPFWDL" ->
              /\ pc' = "station" /\ st_pc' = "a_REQ_INIT"
              /\ UNCHANGED <<bSuccess, mon_pc>>
         [] Dispatch = "SARF" ->
              /\ pc' = "station" /\ st_pc' = "s_REQ_INIT"
              /\ UNCHANGED <<bSuccess, mon_pc>>
         [] Dispatch = "generic" ->
              /\ pc' = "generic" /\ mon_pc' = "gate"
              /\ UNCHANGED <<bSuccess, st_pc>>
         [] OTHER ->
              /\ pc' = "finish" /\ bSuccess' = "False"
              /\ UNCHANGED <<st_pc, mon_pc>>
    /\ UNCHANGED <<cmd, uart, gate, lterx, variant, objArgs, exitCode, st_ret, nRetryCount, iLteBand,
                   instrument, mon_ret, objProcess, pipe, fElapsed, trace>>

\* the station procedure has returned (or raised) into main()
MainStationReturn ==
    /\ pc = "station" /\ st_pc = "returned"
    /\ pc' = "finish"
    /\ bSuccess' = st_ret
    /\ UNCHANGED <<cmd, uart, gate, lterx, variant, objArgs, exitCode, trace>>
    /\ UNCHANGED stVars
    /\ UNCHANGED monVars

\* any other station: main() calls the Completion Monitor itself
MainMonitorReturn ==
    /\ pc = "generic" /\ mon_pc = "done"
    /\ pc' = "finish"
    /\ bSuccess' = mon_ret
    /\ UNCHANGED <<cmd, uart, gate, lterx, variant, objArgs, exitCode, trace>>
    /\ UNCHANGED stVars
    /\ UNCHANGED monVars

\* mutant: only a False result fails the run
ExitCodeOf_OnlyFalseFails(result) == IF result = "False" THEN 1 ELSE 0

\* sys.exit(0) for a true result, sys.exit(1) for a false one and in the
\* handler of an exception that left main()
ExitCodeOf(result) == IF result = "True" THEN 0 ELSE 1

MainExit ==
    /\ pc = "finish"
    /\ pc' = "exited"
    /\ exitCode' = ExitCodeOf(bSuccess)
    /\ UNCHANGED <<cmd, uart, gate, lterx, variant, objArgs, bSuccess, trace>>
    /\ UNCHANGED stVars
    /\ UNCHANGED monVars

(***************************************************************************)
(* ATPFWDL station procedure (atpfwdlProcess / atpfwdl_process).           *)
(***************************************************************************)
InAtp(at) == pc = "station" /\ st_pc = at

\* `return False` inside the try block, or the except handler's return False:
\* control goes to the finally block with the result decided
AtpFail == st_pc' = "a_finally" /\ st_ret' = "False"
AtpGoto(next) == st_pc' = next /\ st_ret' = st_ret

\* ATPFWDL.py returns False when the first REQ_INIT fails; CT1_DL.py warns
AtpInitIsFatal == variant = "CT1"

AtpReqInit ==
    /\ InAtp("a_REQ_INIT")
    /\ \E io \in UartIO, rx \in UartRx :
          LET r == UartStep("REQ_INIT", io, rx) IN
          /\ trace' = Append(trace, Entry("REQ_INIT", UartEnv("REQ_INIT", io, rx), r))
          /\ IF r = "raise" \/ (AtpInitIsFatal /\ ~Truthy(r))
             THEN AtpFail ELSE AtpGoto("a_REQ_BOOT_ON")
    /\ UNCHANGED <<cmd, uart, gate, lterx, variant, objArgs, nRetryCount, iLteBand, instrument>>
    /\ UNCHANGED mainVars
    /\ UNCHANGED monVars

\* mutant: a failed boot-sequence command is only a warning
AtpFatalUart_WarnOnly(at, strCommand, next) ==
    /\ InAtp(at)
    /\ \E io \in UartIO, rx \in UartRx :
          LET r == UartStep(strCommand, io, rx) IN
          /\ trace' = Append(trace, Entry(strCommand, UartEnv(strCommand, io, rx), r))
          /\ IF r = "raise" THEN AtpFail ELSE AtpGoto(next)
    /\ UNCHANGED <<cmd, uart, gate, lterx, variant, objArgs, nRetryCount, iLteBand, instrument>>
    /\ UNCHANGED mainVars
    /\ UNCHANGED monVars

\* a boot-sequence command whose failure ends the procedure
AtpFatalUart(at, strCommand, next) ==
    /\ InAtp(at)
    /\ \E io \in UartIO, rx \in UartRx :
          LET r == UartStep(strCommand, io, rx) IN
          /\ trace' = Append(trace, Entry(strCommand, UartEnv(strCommand, io, rx), r))
          /\ IF Truthy(r) THEN AtpGoto(next) ELSE AtpFail
    /\ UNCHANGED <<cmd, uart, gate, lterx, variant, objArgs, nRetryCount, iLteBand, instrument>>
    /\ UNCHANGED mainVars
    /\ UNCHANGED monVars

AtpReqBootOn  == AtpFatalUart("a_REQ_BOOT_ON", "REQ_BOOT_ON", "a_REQ_POWER_ON")
AtpReqPowerOn == AtpFatalUart("a_REQ_POWER_ON", "REQ_POWER_ON", "a_REQ_DC_IN")
\* mutant: the connection check is left out
AtpReqDcIn_SkipsCheck == AtpFatalUart("a_REQ_DC_IN", "REQ_DC_IN", "a_REQ_BOOT_OFF")
AtpReqDcIn    == AtpFatalUart("a_REQ_DC_IN", "REQ_DC_IN", "a_check_conn")

\* one pass of the connection-check loop
AtpCheckConnection ==
    /\ InAtp("a_check_conn")
    /\ nRetryCount < nMaxRetries
    /\ \E out \in ToolOutputs :
          LET r == ConnectionStep(out) IN
          /\ trace' = Append(trace, Entry("checkDeviceConnection",
                                          IF HasMaskromLine(out) THEN "ok" ELSE "bad", r))
          /\ CASE r = "True"  -> AtpGoto("a_REQ_BOOT_OFF") /\ nRetryCount' = nRetryCount
               [] r = "raise" -> AtpFail /\ nRetryCount' = nRetryCount
               [] OTHER ->
                    /\ nRetryCount' = nRetryCount + 1
                    /\ IF nRetryCount + 1 < nMaxRetries
                       THEN AtpGoto("a_check_conn") ELSE AtpFail
    /\ UNCHANGED <<cmd, uart, gate, lterx, variant, objArgs, iLteBand, instrument>>
    /\ UNCHANGED mainVars
    /\ UNCHANGED monVars

\* mutant: a failed REQ_BOOT_OFF ends the procedure
AtpReqBootOff_Fatal ==
    /\ InAtp("a_REQ_BOOT_OFF")
    /\ \E io \in UartIO, rx \in UartRx :
          LET r == UartStep("REQ_BOOT_OFF", io, rx) IN
          /\ trace' = Append(trace, Entry("REQ_BOOT_OFF",
                                          UartEnv("REQ_BOOT_OFF", io, rx), r))
          /\ IF Truthy(r) THEN AtpGoto("a_flash") ELSE AtpFail
    /\ UNCHANGED <<cmd, uart, gate, lterx, variant, objArgs, nRetryCount, iLteBand, instrument>>
    /\ UNCHANGED mainVars
    /\ UNCHANGED monVars

\* REQ_BOOT_OFF: a failure is a warning only
AtpReqBootOff ==
    /\ InAtp("a_REQ_BOOT_OFF")
    /\ \E io \in UartIO, rx \in UartRx :
          LET r == UartStep("REQ_BOOT_OFF", io, rx) IN
          /\ trace' = Append(trace, Entry("REQ_BOOT_OFF",
                                          UartEnv("REQ_BOOT_OFF", io, rx), r))
          /\ IF r = "raise" THEN AtpFail ELSE AtpGoto("a_flash")
    /\ UNCHANGED <<cmd, uart, gate, lterx, variant, objArgs, nRetryCount, iLteBand, instrument>>
    /\ UNCHANGED mainVars
    /\ UNCHANGED monVars

\* mutant: the result of the flash is not looked at
AtpUpdateFirmware_IgnoresResult ==
    /\ InAtp("a_flash")
    /\ \E out \in ToolOutputs :
          LET r == FlashStep(out) IN
          /\ trace' = Append(trace, Entry("updateFirmware",
                                          IF HasUpgradeOk(out) THEN "ok" ELSE "bad", r))
          /\ IF r # "raise"
             THEN AtpGoto("a_monitor") /\ mon_pc' = "gate"
             ELSE AtpFail /\ mon_pc' = mon_pc
    /\ UNCHANGED <<cmd, uart, gate, lterx, variant, objArgs, nRetryCount, iLteBand, instrument>>
    /\ UNCHANGED mainVars
    /\ UNCHANGED <<mon_ret, objProcess, pipe, fElapsed>>

\* the flash, then the 90 s wait and the call of the Completion Monitor
AtpUpdateFirmware ==
    /\ InAtp("a_flash")
    /\ \E out \in ToolOutputs :
          LET r == FlashStep(out) IN
          /\ trace' = Append(trace, Entry("updateFirmware",
                                          IF HasUpgradeOk(out) THEN "ok" ELSE "bad", r))
          /\ IF Truthy(r)
             THEN AtpGoto("a_monitor") /\ mon_pc' = "gate"
             ELSE AtpFail /\ mon_pc' = mon_pc
    /\ UNCHANGED <<cmd, uart, gate, lterx, variant, objArgs, nRetryCount, iLteBand, instrument>>
    /\ UNCHANGED mainVars
    /\ UNCHANGED <<mon_ret, objProcess, pipe, fElapsed>>

\* mutant: the monitor's result is not looked at
AtpMonitorReturn_AlwaysTrue ==
    /\ InAtp("a_monitor") /\ mon_pc = "done"
    /\ st_pc' = "a_finally"
    /\ st_ret' = "True"
    /\ UNCHANGED <<cmd, uart, gate, lterx, variant, objArgs, nRetryCount, iLteBand, instrument, trace>>
    /\ UNCHANGED mainVars
    /\ UNCHANGED monVars

\* `if not waitForTestCompletion(...): return False`, else return True
AtpMonitorReturn ==
    /\ InAtp("a_monitor") /\ mon_pc = "done"
    /\ st_pc' = "a_finally"
    /\ st_ret' = IF Truthy(mon_ret) THEN "True" ELSE "False"
    /\ UNCHANGED <<cmd, uart, gate, lterx, variant, objArgs, nRetryCount, iLteBand, instrument, trace>>
    /\ UNCHANGED mainVars
    /\ UNCHANGED monVars

\* mutant: the teardown is reached only when the procedure succeeded
AtpFinally_OnlyOnSuccess ==
    /\ InAtp("a_finally")
    /\ IF st_ret = "True"
       THEN \E io \in UartIO, rx \in UartRx :
               trace' = Append(trace, Entry("FINAL_REQ_INIT",
                                            UartEnv("REQ_INIT", io, rx),
                                            UartStep("REQ_INIT", io, rx)))
       ELSE trace' = trace
    /\ st_pc' = "returned"
    /\ st_ret' = st_ret
    /\ UNCHANGED <<cmd, uart, gate, lterx, variant, objArgs, nRetryCount, iLteBand, instrument>>
    /\ UNCHANGED mainVars
    /\ UNCHANGED monVars

\* the finally block: one more REQ_INIT, whose outcome (an exception included)
\* is only logged
AtpFinally ==
    /\ InAtp("a_finally")
    /\ \E io \in UartIO, rx \in UartRx :
          trace' = Append(trace, Entry("FINAL_REQ_INIT",
                                       UartEnv("REQ_INIT", io, rx),
                                       UartStep("REQ_INIT", io, rx)))
    /\ st_pc' = "returned"
    /\ st_ret' = st_ret
    /\ UNCHANGED <<cmd, uart, gate, lterx, variant, objArgs, nRetryCount, iLteBand, instrument>>
    /\ UNCHANGED mainVars
    /\ UNCHANGED monVars

AtpStep ==
    \/ AtpReqInit \/ AtpReqBootOn \/ AtpReqPowerOn \/ AtpReqDcIn
    \/ AtpCheckConnection \/ AtpReqBootOff \/ AtpUpdateFirmware
    \/ AtpMonitorReturn \/ AtpFinally

(***************************************************************************)
(* Completion Monitor (waitForTestCompletion / wait_for_test_completion).  *)
(* The two variants differ only in the log tag and the local directory.    *)
(***************************************************************************)
\* the monitor runs for the generic station or inside a station procedure
MonActive ==
    \/ pc = "generic"
    \/ pc = "station" /\ st_pc \in {"a_monitor", "s_monitor"}

InMon(at) == MonActive /\ mon_pc = at

\* mutant: the finally block leaves the process alone
MonitorFinally_NoTerminate(proc) == proc

\* finally: if 'objProcess' in locals(): objProcess.terminate()
MonitorFinally(proc) == IF proc = "none" THEN "none" ELSE "terminated"

\* mutant: a return that skips the finally block
MonReturn_KeepsProcess(val) ==
    /\ mon_pc' = "done"
    /\ mon_ret' = val
    /\ objProcess' = objProcess
    /\ pipe' = <<>>
    /\ fElapsed' = 0

\* a return from inside the try block, through the finally block; the locals
\* (the pipe object, the elapsed time) end with the call
MonReturn(val) ==
    /\ mon_pc' = "done"
    /\ mon_ret' = val
    /\ objProcess' = MonitorFinally(objProcess)
    /\ pipe' = <<>>
    /\ fElapsed' = 0

MonGoto(next) ==
    /\ mon_pc' = next
    /\ UNCHANGED <<mon_ret, objProcess, pipe, fElapsed>>

\* checkAndGetAdbDevice, then the two `svc ... enable` commands; not ready is a
\* return before the try block
MonGate ==
    /\ InMon("gate")
    /\ \E ready \in BOOLEAN, first \in AutoDetected :
          /\ trace' = Append(trace,
                AdbEntry("checkAndGetAdbDevice",
                         IF ready THEN "ok" ELSE "bad", BoolText(ready), BoolText(ready),
                         RfCommandsTo(ready, ResolvedDevice(objArgs.device, first))))
          /\ IF ready
             THEN MonGoto("clear")
             ELSE /\ mon_pc' = "done" /\ mon_ret' = "False"
                  /\ UNCHANGED <<objProcess, pipe, fElapsed>>
    /\ UNCHANGED <<cmd, uart, gate, lterx, variant, objArgs>>
    /\ UNCHANGED mainVars
    /\ UNCHANGED stVars

\* adb logcat -c, check=True
MonLogcatClear ==
    /\ InMon("clear")
    /\ \E ok \in BOOLEAN :
          /\ trace' = Append(trace, Entry("logcat_clear",
                                          IF ok THEN "ok" ELSE "bad",
                                          IF ok THEN "True" ELSE "raise"))
          /\ IF ok THEN MonGoto("popen") ELSE MonReturn("False")
    /\ UNCHANGED <<cmd, uart, gate, lterx, variant, objArgs>>
    /\ UNCHANGED mainVars
    /\ UNCHANGED stVars

\* mutant: the log stream is not started before the broadcast
MonPopen_Skipped ==
    /\ InMon("popen")
    /\ MonGoto("broadcast")
    /\ UNCHANGED <<cmd, uart, gate, lterx, variant, objArgs, trace>>
    /\ UNCHANGED mainVars
    /\ UNCHANGED stVars

\* subprocess.Popen of the filtered logcat stream
MonPopen ==
    /\ InMon("popen")
    /\ \E ok \in BOOLEAN :
          /\ trace' = Append(trace, Entry("logcat_start",
                                          IF ok THEN "ok" ELSE "bad",
                                          IF ok THEN "True" ELSE "raise"))
          /\ IF ok
             THEN /\ mon_pc' = "broadcast" /\ objProcess' = "running"
                  /\ UNCHANGED <<mon_ret, pipe, fElapsed>>
             ELSE MonReturn("False")
    /\ UNCHANGED <<cmd, uart, gate, lterx, variant, objArgs>>
    /\ UNCHANGED mainVars
    /\ UNCHANGED stVars

\* mutant: the broadcast's output is not looked at
BroadcastAcked_Unchecked(out) == TRUE

\* whether the broadcast was acknowledged, from the command's stdout
BroadcastAcked(out) == out = "Broadcast completed"

\* am broadcast; on acknowledgement fStartTime is taken and polling starts
MonBroadcast ==
    /\ InMon("broadcast")
    /\ \E out \in {"Broadcast completed", "other", "raise"} :
          /\ trace' = Append(trace, Entry("broadcast",
                                          IF out = "Broadcast completed" THEN "ok"
                                          ELSE IF out = "raise" THEN "raise" ELSE "noack",
                                          IF out = "raise" THEN "raise"
                                          ELSE IF BroadcastAcked(out) THEN "True"
                                          ELSE "False"))
          /\ IF out # "raise" /\ BroadcastAcked(out)
             THEN /\ mon_pc' = "loop"
                  /\ fElapsed' = 0
                  /\ UNCHANGED <<mon_ret, objProcess, pipe>>
             ELSE MonReturn("False")
    /\ UNCHANGED <<cmd, uart, gate, lterx, variant, objArgs>>
    /\ UNCHANGED mainVars
    /\ UNCHANGED stVars

\* mutant: objProcess.poll() is not looked at
MonLoopTop_IgnoresExit ==
    /\ InMon("loop")
    /\ IF fElapsed > TimeoutTicks
       THEN /\ MonReturn("False")
            /\ trace' = Append(trace, Entry("timeout", "bad", "False"))
       ELSE /\ MonGoto("readline")
            /\ trace' = trace
    /\ UNCHANGED <<cmd, uart, gate, lterx, variant, objArgs>>
    /\ UNCHANGED mainVars
    /\ UNCHANGED stVars

\* top of the polling loop: the timeout test, then objProcess.poll()
MonLoopTop ==
    /\ InMon("loop")
    /\ IF fElapsed > TimeoutTicks
       THEN /\ MonReturn("False")
            /\ trace' = Append(trace, Entry("timeout", "bad", "False"))
       ELSE IF objProcess = "exited"
       THEN /\ MonReturn("False")
            /\ trace' = Append(trace, Entry("logcat_died", "bad", "False"))
       ELSE /\ MonGoto("readline")
            /\ trace' = trace
    /\ UNCHANGED <<cmd, uart, gate, lterx, variant, objArgs>>
    /\ UNCHANGED mainVars
    /\ UNCHANGED stVars

\* objProcess.stdout.readline() has something to return: a line, or '' at end
\* of file; otherwise the call waits
ReadlineReturns == pipe # <<>> \/ objProcess = "exited"

MonReadline ==
    /\ InMon("readline")
    /\ ReadlineReturns
    /\ \E io \in {"ok", "raise"} :
          IF io = "raise"
          THEN /\ MonReturn("False")
               /\ trace' = Append(trace, Entry("readline", "bad", "raise"))
          ELSE IF pipe = <<>>
          THEN /\ MonGoto("loop")
               /\ trace' = trace
          ELSE /\ pipe' = Tail(pipe)
               /\ UNCHANGED <<mon_ret, objProcess, fElapsed>>
               /\ IF Head(pipe) = "ATP Test Finish!!"
                  THEN /\ mon_pc' = "check"
                       /\ trace' = Append(trace,
                              Entry("finish_read",
                                    IF fElapsed > TimeoutTicks THEN "late" ELSE "ok",
                                    IF objProcess = "exited" THEN "eof" ELSE "True"))
                  ELSE /\ mon_pc' = "loop"
                       /\ trace' = trace
    /\ UNCHANGED <<cmd, uart, gate, lterx, variant, objArgs>>
    /\ UNCHANGED mainVars
    /\ UNCHANGED stVars

\* test -e <log> && echo EXISTS || echo NOT_FOUND
MonCheckFile ==
    /\ InMon("check")
    /\ \E out \in {"EXISTS", "NOT_FOUND", "raise"} :
          /\ trace' = Append(trace, Entry("check_file",
                                          IF out = "EXISTS" THEN "ok" ELSE "bad",
                                          IF out = "raise" THEN "raise"
                                          ELSE IF out = "EXISTS" THEN "True" ELSE "False"))
          /\ IF out = "EXISTS" THEN MonGoto("pull") ELSE MonReturn("False")
    /\ UNCHANGED <<cmd, uart, gate, lterx, variant, objArgs>>
    /\ UNCHANGED mainVars
    /\ UNCHANGED stVars

\* mutant: the pull's own report is not looked at
PullResult_Unchecked(err) == "True"

\* the value of bTestSuccess after adb pull wrote `err` on its stderr
PullResult(err) == IF err = "1 file pulled" THEN "True" ELSE "False"

MonPull ==
    /\ InMon("pull")
    /\ \E err \in {"1 file pulled", "error", "raise"} :
          /\ trace' = Append(trace, Entry("pull",
                                          IF err = "1 file pulled" THEN "ok" ELSE "bad",
                                          IF err = "raise" THEN "raise" ELSE PullResult(err)))
          /\ MonReturn(IF err = "raise" THEN "False" ELSE PullResult(err))
    /\ UNCHANGED <<cmd, uart, gate, lterx, variant, objArgs>>
    /\ UNCHANGED mainVars
    /\ UNCHANGED stVars

\* where a KeyboardInterrupt lands inside the try block
MonTryBlock == {"clear", "popen", "broadcast", "loop", "readline", "check", "pull"}

\* mutant: no handler for KeyboardInterrupt, the interrupt propagates
InterruptResult_Propagates == "raise"

\* the value the monitor gives when the user interrupts it:
\* except KeyboardInterrupt: return False
InterruptResult == "False"

MonInterrupt ==
    /\ MonActive /\ mon_pc \in MonTryBlock
    /\ trace' = Append(trace, Entry("KeyboardInterrupt", mon_pc, InterruptResult))
    /\ MonReturn(InterruptResult)
    /\ UNCHANGED <<cmd, uart, gate, lterx, variant, objArgs>>
    /\ UNCHANGED mainVars
    /\ UNCHANGED stVars

MonStep ==
    \/ MonGate \/ MonLogcatClear \/ MonPopen \/ MonBroadcast \/ MonLoopTop
    \/ MonReadline \/ MonCheckFile \/ MonPull

(***************************************************************************)
(* Environment of the monitor: the device's log stream and the clock.      *)
(***************************************************************************)
LogcatEmit ==
    /\ objProcess = "running"
    /\ Len(pipe) < MaxPipe
    /\ \E line \in LogLines : pipe' = Append(pipe, line)
    /\ UNCHANGED <<cmd, uart, gate, lterx, variant, objArgs, mon_pc, mon_ret, objProcess, fElapsed, trace>>
    /\ UNCHANGED mainVars
    /\ UNCHANGED stVars

LogcatExit ==
    /\ objProcess = "running"
    /\ objProcess' = "exited"
    /\ UNCHANGED <<cmd, uart, gate, lterx, variant, objArgs, mon_pc, mon_ret, pipe, fElapsed, trace>>
    /\ UNCHANGED mainVars
    /\ UNCHANGED stVars

Tick ==
    /\ MonActive /\ mon_pc \in {"loop", "readline"}
    /\ fElapsed < MaxClock
    /\ fElapsed' = fElapsed + 1
    /\ UNCHANGED <<cmd, uart, gate, lterx, variant, objArgs, mon_pc, mon_ret, objProcess, pipe, trace>>
    /\ UNCHANGED mainVars
    /\ UNCHANGED stVars

(***************************************************************************)
(* SARF station procedure (sarfProcess).                                   *)
(***************************************************************************)
InSarf(at) == pc = "station" /\ st_pc = at

\* `return False` inside the try block (or from the except handler)
SarfFail == st_pc' = "s_finally" /\ st_ret' = "False"
SarfGoto(next) == st_pc' = next /\ st_ret' = st_ret

\* every UART command of the SARF boot sequence ends the procedure on failure
SarfFatalUart(at, strCommand, next) ==
    /\ InSarf(at)
    /\ \E io \in UartIO, rx \in UartRx :
          LET r == UartStep(strCommand, io, rx) IN
          /\ trace' = Append(trace, Entry(strCommand, UartEnv(strCommand, io, rx), r))
          /\ IF Truthy(r) THEN SarfGoto(next) ELSE SarfFail
    /\ UNCHANGED <<cmd, uart, gate, lterx, variant, objArgs, nRetryCount, iLteBand, instrument>>
    /\ UNCHANGED mainVars
    /\ UNCHANGED monVars

SarfReqInit    == SarfFatalUart("s_REQ_INIT", "REQ_INIT", "s_REQ_POWER_ON")
SarfReqPowerOn == SarfFatalUart("s_REQ_POWER_ON", "REQ_POWER_ON", "s_REQ_DC_IN")
SarfReqDcIn    == SarfFatalUart("s_REQ_DC_IN", "REQ_DC_IN", "s_wifi")

\* a step before the instrument exists: res "True" goes on, anything else fails
SarfPlainEntry(e, next) ==
    /\ trace' = Append(trace, e)
    /\ IF Truthy(e.res) THEN SarfGoto(next) ELSE SarfFail
SarfPlainStep(step, env, r, next) == SarfPlainEntry(Entry(step, env, r), next)

SarfWiFi ==
    /\ InSarf("s_wifi")
    /\ \E ready \in BOOLEAN, io \in {"ok", "raise"}, first \in AutoDetected :
          SarfPlainEntry(AdbEntry("settingWiFi11Gchannel7",
                                  IF ready /\ io = "ok" THEN "ok" ELSE "bad",
                                  settingWiFi11Gchannel7(ready, io), BoolText(ready),
                                  RfCommandsTo(ready, ResolvedDevice("None", first))),
                         "s_iq_wifi")
    /\ UNCHANGED <<cmd, uart, gate, lterx, variant, objArgs, nRetryCount, iLteBand, instrument>>
    /\ UNCHANGED mainVars
    /\ UNCHANGED monVars

SarfIQxel(at, step, next) ==
    /\ InSarf(at)
    /\ \E io \in {"ok", "raise"}, out \in IQxelOutputs :
          LET fSignalPower == getIQxelValue(io, out) IN
          SarfPlainStep(step, IF fSignalPower # "None" THEN "ok" ELSE "bad",
                        IF fSignalPower # "None" THEN "True" ELSE "False", next)
    /\ UNCHANGED <<cmd, uart, gate, lterx, variant, objArgs, nRetryCount, iLteBand, instrument>>
    /\ UNCHANGED mainVars
    /\ UNCHANGED monVars

SarfIQxelWiFi == SarfIQxel("s_iq_wifi", "getIQxelValue WiFi", "s_bt")

SarfBT ==
    /\ InSarf("s_bt")
    /\ \E ready \in BOOLEAN, io \in {"ok", "raise", "push_fails"},
          first \in AutoDetected :
          SarfPlainEntry(AdbEntry("settingBTTXTest",
                                  IF ready /\ io = "ok" THEN "ok" ELSE "bad",
                                  settingBTTXTest(ready, io), BoolText(ready),
                                  RfCommandsTo(ready, ResolvedDevice("None", first))),
                         "s_iq_bt")
    /\ UNCHANGED <<cmd, uart, gate, lterx, variant, objArgs, nRetryCount, iLteBand, instrument>>
    /\ UNCHANGED mainVars
    /\ UNCHANGED monVars

SarfIQxelBT == SarfIQxel("s_iq_bt", "getIQxelValue BT", "s_setupGPIB")

\* setupGPIB, and the test `not bCheckGPIB or strGPIBAddress is None`
SarfSetupGPIB ==
    /\ InSarf("s_setupGPIB")
    /\ \E io \in {"ok", "raise"}, resources \in VisaListings :
          LET g == setupGPIB(io, resources) IN
          SarfPlainStep("setupGPIB",
                        IF io = "raise" THEN "raise"
                        ELSE IF \E i \in 1..Len(resources) : StartsWithGPIB(resources[i])
                        THEN "ok" ELSE "none",
                        IF g.bCheckGPIB /\ g.strGPIBAddress # "None"
                        THEN "True" ELSE "False",
                        "s_connectGPIB")
    /\ UNCHANGED <<cmd, uart, gate, lterx, variant, objArgs, nRetryCount, iLteBand, instrument>>
    /\ UNCHANGED mainVars
    /\ UNCHANGED monVars

\* instrument = connectGPIB(rm, strGPIBAddress): the local is bound from here on
SarfConnectGPIB ==
    /\ InSarf("s_connectGPIB")
    /\ \E io \in {"ok", "raise"} :
          /\ instrument' = connectGPIB(io)
          /\ trace' = Append(trace, Entry("connectGPIB",
                                          IF io = "ok" THEN "ok" ELSE "bad",
                                          IF connectGPIB(io) = "None" THEN "False" ELSE "True"))
          /\ IF connectGPIB(io) = "None"
             THEN SarfFail /\ iLteBand' = iLteBand
             ELSE SarfGoto("s_gpib_cmds") /\ iLteBand' = 1
    /\ UNCHANGED <<cmd, uart, gate, lterx, variant, objArgs, nRetryCount>>
    /\ UNCHANGED mainVars
    /\ UNCHANGED monVars

\* a step of the LTE part: on failure closeGPIB(instrument), then return False
SarfLteEntry(e, next) ==
    /\ trace' = Append(trace, e)
    /\ IF Truthy(e.res)
       THEN SarfGoto(next) /\ instrument' = instrument
       ELSE SarfFail /\ instrument' = closeGPIB(instrument)
SarfLteStep(step, env, r, next) == SarfLteEntry(Entry(step, env, r), next)

\* the list of set-up commands of the band (CALLPROC OFF ... PWR_AVG 20)
SarfGpibCommands ==
    /\ InSarf("s_gpib_cmds")
    /\ \E io \in {"ok", "raise"} :
          SarfLteStep("gpib_band_setup", IF io = "ok" THEN "ok" ELSE "bad",
                      sendGPIBCommand(instrument, io), "s_lte_tx")
    /\ UNCHANGED <<cmd, uart, gate, lterx, variant, objArgs, nRetryCount, iLteBand>>
    /\ UNCHANGED mainVars
    /\ UNCHANGED monVars

SarfLteTx ==
    /\ InSarf("s_lte_tx")
    /\ \E ready \in BOOLEAN, io \in {"ok", "raise", "rftest_fails", "ltecmd_fails"},
          first \in AutoDetected :
          SarfLteEntry(AdbEntry("settingLTETXTest",
                                IF ready /\ io = "ok" THEN "ok" ELSE "bad",
                                settingLTETXTest(CurrentBand, ready, io), BoolText(ready),
                                RfCommandsTo(ready, ResolvedDevice("None", first))),
                       "s_swp")
    /\ UNCHANGED <<cmd, uart, gate, lterx, variant, objArgs, nRetryCount, iLteBand>>
    /\ UNCHANGED mainVars
    /\ UNCHANGED monVars

SarfSwp ==
    /\ InSarf("s_swp")
    /\ \E io \in {"ok", "raise"} :
          SarfLteStep("SWP", IF io = "ok" THEN "ok" ELSE "bad",
                      sendGPIBCommand(instrument, io), "s_query")
    /\ UNCHANGED <<cmd, uart, gate, lterx, variant, objArgs, nRetryCount, iLteBand>>
    /\ UNCHANGED mainVars
    /\ UNCHANGED monVars

\* float(strPowerValue) raises ValueError on text that is no number
IsFloatText(strValue) == strValue = "23.1"

\* POWER? AVG, and the conversion of the answer
SarfQueryPower ==
    /\ InSarf("s_query")
    /\ \E response \in {"None", "23.1", "garbage"} :
          LET strPowerValue == queryGPIB(instrument, response) IN
          SarfLteStep("POWER? AVG", IF IsFloatText(response) THEN "ok" ELSE "bad",
                      IF strPowerValue # "None" /\ IsFloatText(strPowerValue)
                      THEN "True" ELSE "False",
                      "s_rxprm")
    /\ UNCHANGED <<cmd, uart, gate, lterx, variant, objArgs, nRetryCount, iLteBand>>
    /\ UNCHANGED mainVars
    /\ UNCHANGED monVars

SarfRxParams ==
    /\ InSarf("s_rxprm")
    /\ \E io \in {"ok", "raise"} :
          SarfLteStep("TESTPRM RX_MAX", IF io = "ok" THEN "ok" ELSE "bad",
                      sendGPIBCommand(instrument, io), "s_lte_rx")
    /\ UNCHANGED <<cmd, uart, gate, lterx, variant, objArgs, nRetryCount, iLteBand>>
    /\ UNCHANGED mainVars
    /\ UNCHANGED monVars

\* getLTERXResult(band, -50); after band 1 comes band 26, after band 26 the
\* Completion Monitor
SarfLteRx ==
    /\ InSarf("s_lte_rx")
    /\ \E ready \in BOOLEAN, io \in {"ok", "raise"},
          captures \in [1..maxRetry -> RxCaptures], first \in AutoDetected :
          LET fRxValue == getLTERXResult(CurrentBand, fRxThreshold, ready, io, captures) IN
          /\ trace' = Append(trace,
                AdbEntry("getLTERXResult",
                         IF fRxValue.none THEN "bad" ELSE "ok",
                         IF fRxValue.none THEN "None" ELSE "True", BoolText(ready),
                         RfCommandsTo(ready, ResolvedDevice("None", first))))
          /\ IF fRxValue.none
             THEN /\ SarfFail /\ instrument' = closeGPIB(instrument)
                  /\ UNCHANGED <<iLteBand, mon_pc>>
             ELSE IF iLteBand < Len(LteBands)
             THEN /\ SarfGoto("s_gpib_cmds") /\ iLteBand' = iLteBand + 1
                  /\ UNCHANGED <<instrument, mon_pc>>
             ELSE /\ SarfGoto("s_monitor") /\ mon_pc' = "gate"
                  /\ UNCHANGED <<instrument, iLteBand>>
    /\ UNCHANGED <<cmd, uart, gate, lterx, variant, objArgs, nRetryCount>>
    /\ UNCHANGED mainVars
    /\ UNCHANGED <<mon_ret, objProcess, pipe, fElapsed>>

SarfMonitorReturn ==
    /\ InSarf("s_monitor") /\ mon_pc = "done"
    /\ st_pc' = "s_finally"
    /\ st_ret' = IF Truthy(mon_ret) THEN "True" ELSE "False"
    /\ UNCHANGED <<cmd, uart, gate, lterx, variant, objArgs, nRetryCount, iLteBand, instrument, trace>>
    /\ UNCHANGED mainVars
    /\ UNCHANGED monVars

\* mutant: the finally block sends the final REQ_INIT but closes nothing
SarfFinally_NoClose ==
    /\ InSarf("s_finally")
    /\ st_pc' = "returned"
    /\ IF instrument = "unbound"
       THEN /\ st_ret' = "raise"
            /\ UNCHANGED <<instrument, trace>>
       ELSE /\ instrument' = instrument
            /\ st_ret' = st_ret
            /\ \E io \in UartIO, rx \in UartRx :
                  trace' = Append(trace, Entry("FINAL_REQ_INIT",
                                               UartEnv("REQ_INIT", io, rx),
                                               UartStep("REQ_INIT", io, rx)))
    /\ UNCHANGED <<cmd, uart, gate, lterx, variant, objArgs, nRetryCount, iLteBand>>
    /\ UNCHANGED mainVars
    /\ UNCHANGED monVars

\* the finally block: closeGPIB(instrument), then the final REQ_INIT.  Reading
\* the local `instrument` before it was ever assigned raises UnboundLocalError
\* inside the finally block: the rest of the block is skipped and the exception
\* replaces the pending return value.
SarfFinally ==
    /\ InSarf("s_finally")
    /\ st_pc' = "returned"
    /\ IF instrument = "unbound"
       THEN /\ st_ret' = "raise"
            /\ UNCHANGED <<instrument, trace>>
       ELSE /\ instrument' = closeGPIB(instrument)
            /\ st_ret' = st_ret
            /\ \E io \in UartIO, rx \in UartRx :
                  trace' = Append(trace, Entry("FINAL_REQ_INIT",
                                               UartEnv("REQ_INIT", io, rx),
                                               UartStep("REQ_INIT", io, rx)))
    /\ UNCHANGED <<cmd, uart, gate, lterx, variant, objArgs, nRetryCount, iLteBand>>
    /\ UNCHANGED mainVars
    /\ UNCHANGED monVars

SarfStep ==
    \/ SarfReqInit \/ SarfReqPowerOn \/ SarfReqDcIn
    \/ SarfWiFi \/ SarfIQxelWiFi \/ SarfBT \/ SarfIQxelBT
    \/ SarfSetupGPIB \/ SarfConnectGPIB
    \/ SarfGpibCommands \/ SarfLteTx \/ SarfSwp \/ SarfQueryPower
    \/ SarfRxParams \/ SarfLteRx
    \/ SarfMonitorReturn \/ SarfFinally

(***************************************************************************)
(* The whole program.                                                      *)
(***************************************************************************)
MainStep == MainDispatch \/ MainStationReturn \/ MainMonitorReturn \/ MainExit

Program == MainStep \/ AtpStep \/ SarfStep \/ MonStep

\* the user's Ctrl-C, the device's log stream and the clock are the environment
Next == Program \/ MonInterrupt \/ LogcatEmit \/ LogcatExit \/ Tick

Spec == Init /\ [][Next]_vars

\* The program is one sequential process that runs whenever it is not waiting
\* in a blocking call, and the wall clock advances; the device's log stream
\* owes nothing.
FairSpec == Spec /\ WF_vars(Program) /\ WF_vars(Tick)

(***************************************************************************)
(* Properties.                                                             *)
(***************************************************************************)
FinalInits == Count("FINAL_REQ_INIT")
LteSteps == {"gpib_band_setup", "settingLTETXTest", "SWP", "POWER? AVG",
             "TESTPRM RX_MAX", "getLTERXResult"}
\* every answer the environment gave so far was the good one
EnvAllOk == \A i \in 1..Len(trace) : trace[i].env = "ok"

\* C1: an ATPFWDL run of the current program in which every UART command got
\* its RES_*_OK token, the vendor tool listed a Maskrom device, the flash
\* reported success, the device appeared on ADB, the broadcast was
\* acknowledged, the completion phrase was read in time, the result file
\* existed and was pulled, ends with result True and exit code 0.
C1_ScenarioA_PassesAndExits0 ==
    (variant = "CT1" /\ Dispatch = "ATPFWDL" /\ pc = "exited" /\ EnvAllOk)
        => (bSuccess = "True" /\ exitCode = 0)

\* C2: in the ATPFWDL procedure the teardown REQ_INIT is sent at most once
\* while the procedure runs and exactly once by the time it has returned, on
\* every exit path; the procedure returns a boolean that is True exactly when
\* the Completion Monitor returned True, whatever the teardown's own outcome.
C2_AtpTeardownExactlyOnce ==
    Dispatch = "ATPFWDL" =>
        /\ FinalInits <= 1
        /\ st_pc = "returned" =>
              /\ FinalInits = 1
              /\ trace[Len(trace)].step = "FINAL_REQ_INIT"
              /\ st_ret \in {"True", "False"}
              /\ st_ret = "True" <=> mon_ret = "True"

\* the procedure returned True although its teardown REQ_INIT failed
C2_Witness ==
    /\ Dispatch = "ATPFWDL" /\ st_pc = "returned" /\ st_ret = "True"
    /\ ResOf("FINAL_REQ_INIT") \cap {"False", "raise"} # {}

\* C3: once sarfProcess has returned, the teardown REQ_INIT has been sent
\* exactly once, whichever step ended the procedure.
C3_SarfTeardownExactlyOnce ==
    (Dispatch = "SARF" /\ st_pc = "returned") => FinalInits = 1

\* C4: a SARF run in which GPIB discovery found no GPIB resource returns
\* False, has executed no LTE step, and has sent the final REQ_INIT.
C4_ScenarioC_NoGpib ==
    (Dispatch = "SARF" /\ "none" \in EnvOf("setupGPIB")) =>
        /\ Steps \cap LteSteps = {}
        /\ st_pc = "returned" => (st_ret = "False" /\ FinalInits = 1)

\* C5: an ATPFWDL run in which REQ_INIT, REQ_BOOT_ON and REQ_POWER_ON got
\* their tokens and REQ_DC_IN did not never invokes the connection check or
\* the flash, sends the teardown REQ_INIT, returns False and exits with 1.
ScenarioB ==
    /\ Dispatch = "ATPFWDL"
    /\ ResOf("REQ_INIT") = {"True"}
    /\ ResOf("REQ_BOOT_ON") = {"True"}
    /\ ResOf("REQ_POWER_ON") = {"True"}
    /\ EnvOf("REQ_DC_IN") = {"bad"}

C5_ScenarioB_AbortsBeforeFlash ==
    ScenarioB =>
        /\ ~Did("checkDeviceConnection")
        /\ ~Did("updateFirmware")
        /\ mon_pc = "idle"
        /\ st_pc \in {"a_finally", "returned"}
        /\ st_ret = "False"
        /\ st_pc = "returned" => FinalInits = 1
        /\ pc = "finish" => bSuccess = "False"
        /\ pc = "exited" => exitCode = 1

C5_Witness == ScenarioB /\ pc = "exited" /\ FinalInits = 1

\* C6: the Completion Monitor returns True only if it read a line with the
\* completion phrase, the existence check answered EXISTS and the pull
\* reported '1 file pulled'; the pull is attempted only after EXISTS.
C6_TrueOnlyIfPhraseFilePull ==
    /\ mon_ret = "True" =>
          /\ Did("finish_read")
          /\ EnvOf("check_file") = {"ok"}
          /\ EnvOf("pull") = {"ok"}
    /\ Did("pull") => EnvOf("check_file") = {"ok"}
    /\ Count("pull") <= 1

C6_Witness == mon_pc = "done" /\ mon_ret = "True"

\* the completion phrase has not appeared in the log stream so far
NoPhraseYet ==
    /\ ~Did("finish_read")
    /\ \A i \in 1..Len(pipe) : pipe[i] # "ATP Test Finish!!"
MonPolling == MonActive /\ mon_pc \in {"loop", "readline"}

\* C7: in a run whose log stream never shows the completion phrase (the
\* stream may stay open and silent), once the timeout has elapsed the
\* Completion Monitor returns False with its log-stream process terminated.
C7_TimeoutReturnsFalse ==
    ([]NoPhraseYet) =>
        ((MonPolling /\ fElapsed > TimeoutTicks)
            ~> (mon_pc = "done" /\ mon_ret = "False" /\ objProcess = "terminated"))

\* C8: when the broadcast's output lacks 'Broadcast completed' the monitor has
\* returned False at once: it never polls the log, no time is spent waiting,
\* and the log-stream process it had started is terminated.
C8_NoAckReturnsAtOnce ==
    "noack" \in EnvOf("broadcast") =>
        /\ mon_pc = "done"
        /\ mon_ret = "False"
        /\ objProcess = "terminated"
        /\ fElapsed = 0
        /\ Steps \cap {"timeout", "logcat_died", "readline", "finish_read",
                       "check_file", "pull"} = {}

C8_Witness == "noack" \in EnvOf("broadcast") /\ mon_pc = "done"

\* C9: once the monitor has returned, a log-stream process it started is
\* terminated, whichever way the monitor ended.
C9_LogProcessTerminated ==
    (mon_pc = "done" /\ "True" \in ResOf("logcat_start")) => objProcess = "terminated"

C9_Witness ==
    /\ mon_pc = "done" /\ "True" \in ResOf("logcat_start")
    /\ Did("timeout") /\ objProcess = "terminated"

\* C10: a KeyboardInterrupt while the monitor waits for the completion phrase
\* terminates the log process and makes the monitor return False; the station
\* procedure then returns False after sending its teardown REQ_INIT, and the
\* run exits with 1.
InterruptedWhileWaiting ==
    \E i \in 1..Len(trace) :
        trace[i].step = "KeyboardInterrupt" /\ trace[i].env \in {"loop", "readline"}

C10_InterruptIsFailedRun ==
    InterruptedWhileWaiting =>
        /\ mon_pc = "done"
        /\ mon_ret = "False"
        /\ objProcess = "terminated"
        /\ pc = "station" => st_pc \in {"a_monitor", "s_monitor", "a_finally",
                                        "s_finally", "returned"}
        /\ st_pc \in {"a_finally", "s_finally", "returned"} => st_ret = "False"
        /\ st_pc = "returned" => FinalInits = 1
        /\ pc = "finish" => bSuccess = "False"
        /\ pc = "exited" => exitCode = 1

C10_Witness ==
    /\ InterruptedWhileWaiting /\ Dispatch = "ATPFWDL"
    /\ pc = "exited" /\ FinalInits = 1

\* the same scenario A in the legacy program (CT1_DL.py), whose run_command
\* takes the keyword cwd
ScenarioA_Legacy ==
    (variant = "CT1_DL" /\ Dispatch = "ATPFWDL" /\ pc = "exited" /\ EnvAllOk)
        => (bSuccess = "True" /\ exitCode = 0)

(***************************************************************************)
(* Properties of the station procedures, continued (specification Spec).   *)
(***************************************************************************)
\* the procedure is past its try block
AtpLeftTry == st_pc \in {"a_finally", "returned"}
\* no attempt of the connection check succeeded
ConnectionNeverUp ==
    Did("checkDeviceConnection") /\ "True" \notin ResOf("checkDeviceConnection")

\* C15: the connection check of ATPFWDL is invoked at most 3 times; when no
\* attempt succeeds it has been invoked exactly 3 times, and the procedure
\* fails without REQ_BOOT_OFF and without the flash.
C15_ConnectionCheckThreeTimes ==
    Dispatch = "ATPFWDL" =>
        /\ Count("checkDeviceConnection") <= nMaxRetries
        /\ (st_pc = "returned" /\ ConnectionNeverUp) =>
               /\ Count("checkDeviceConnection") = nMaxRetries
               /\ st_ret = "False"
               /\ ~Did("REQ_BOOT_OFF") /\ ~Did("updateFirmware")

\* the steps of ATPFWDL whose single failure is fatal
AtpFatalSteps == {"REQ_BOOT_ON", "REQ_POWER_ON", "REQ_DC_IN", "updateFirmware"}
\* nothing but the teardown follows entry i of the trace
OnlyTeardownAfter(i) ==
    \A j \in (i + 1)..Len(trace) : trace[j].step = "FINAL_REQ_INIT"
\* the connection check has failed for good: it raised, or used up its tries
ConnectionGaveUp ==
    \/ "raise" \in ResOf("checkDeviceConnection")
    \/ (ConnectionNeverUp /\ Count("checkDeviceConnection") = nMaxRetries)
LastConnectionCheck ==
    CHOOSE i \in 1..Len(trace) :
        /\ trace[i].step = "checkDeviceConnection"
        /\ \A j \in (i + 1)..Len(trace) : trace[j].step # "checkDeviceConnection"

\* what the Completion Monitor records in the trace
MonitorSteps == {"checkAndGetAdbDevice", "logcat_clear", "logcat_start", "broadcast",
                 "timeout", "logcat_died", "readline", "finish_read", "check_file",
                 "pull", "KeyboardInterrupt"}

\* C16: in ATPFWDL a failed fatal step (REQ_BOOT_ON, REQ_POWER_ON, REQ_DC_IN,
\* connection check, flash, Completion Monitor) makes the procedure return
\* False, and no step but the teardown REQ_INIT follows the failed one.
C16_AtpFatalStepAborts ==
    Dispatch = "ATPFWDL" =>
        /\ \A i \in 1..Len(trace) :
              (trace[i].step \in AtpFatalSteps /\ trace[i].res # "True") =>
                  (AtpLeftTry /\ st_ret = "False" /\ OnlyTeardownAfter(i))
        /\ ConnectionGaveUp =>
              (AtpLeftTry /\ st_ret = "False" /\ OnlyTeardownAfter(LastConnectionCheck))
        /\ (mon_pc = "done" /\ mon_ret # "True" /\ AtpLeftTry) => st_ret = "False"
        /\ \A i \in 1..Len(trace) :
              trace[i].step \in MonitorSteps =>
                  \A j \in (i + 1)..Len(trace) :
                      trace[j].step \in MonitorSteps \cup {"FINAL_REQ_INIT"}

C16_Witness ==
    /\ Dispatch = "ATPFWDL" /\ st_pc = "returned" /\ st_ret = "False"
    /\ "False" \in ResOf("updateFirmware")
    /\ Did("REQ_BOOT_OFF") /\ ~Did("checkAndGetAdbDevice") /\ FinalInits = 1

\* C17: in ATPFWDL a failed first REQ_INIT is a warning only: REQ_BOOT_ON is
\* still sent.
C17_AtpInitWarningOnly ==
    (Dispatch = "ATPFWDL" /\ "False" \in ResOf("REQ_INIT") /\ st_pc = "returned")
        => Did("REQ_BOOT_ON")

\* C18: in SARF a failed first REQ_INIT is a warning only: REQ_POWER_ON is
\* still sent.
C18_SarfInitWarningOnly ==
    (Dispatch = "SARF" /\ "False" \in ResOf("REQ_INIT") /\ st_pc = "returned")
        => Did("REQ_POWER_ON")

\* C19: in ATPFWDL a failed REQ_BOOT_OFF is a warning only: the flash is
\* invoked next, and the run can still succeed.
C19_BootOffWarningOnly ==
    (Dispatch = "ATPFWDL" /\ "False" \in ResOf("REQ_BOOT_OFF")) =>
        /\ st_pc = "a_flash" \/ Did("updateFirmware")
        /\ Did("updateFirmware") => Before("REQ_BOOT_OFF", "updateFirmware")

C19_Witness ==
    /\ Dispatch = "ATPFWDL" /\ "False" \in ResOf("REQ_BOOT_OFF")
    /\ pc = "exited" /\ bSuccess = "True" /\ exitCode = 0

\* C20: in SARF a GPIB handle that connectGPIB opened is closed when
\* sarfProcess returns, whatever the exit path.
C20_GpibHandleClosed ==
    (Dispatch = "SARF" /\ st_pc = "returned" /\ "True" \in ResOf("connectGPIB"))
        => instrument = "closed"

C20_Witness ==
    /\ Dispatch = "SARF" /\ st_pc = "returned" /\ st_ret = "True"
    /\ "True" \in ResOf("connectGPIB") /\ instrument = "closed"

(***************************************************************************)
(* Properties of the run driver and the Completion Monitor, continued      *)
(* (specification Spec).                                                   *)
(***************************************************************************)
\* C21: the exit code is 0 exactly when the selected procedure returned a true
\* result; it is 1 when the result was false and when an exception left main.
C21_ExitCodeFollowsResult ==
    pc = "exited" =>
        /\ exitCode \in {0, 1}
        /\ exitCode = 0 <=> bSuccess = "True"
        /\ Dispatch \in {"ATPFWDL", "SARF"} => (exitCode = 0 <=> st_ret = "True")
        /\ Dispatch = "generic" => (exitCode = 0 <=> mon_ret = "True")
        /\ Dispatch = "reject" => exitCode = 1

C21_Witness == pc = "exited" /\ st_ret = "raise" /\ exitCode = 1

\* C22: the monitor never returns True when the completion phrase was first
\* read after more than the timeout had elapsed since polling started.
C22_NoSuccessAfterTimeout ==
    (mon_pc = "done" /\ "late" \in EnvOf("finish_read")) => mon_ret # "True"

\* every entry b of the trace comes after a successful entry a
AfterSuccessOf(a, b) ==
    \A j \in 1..Len(trace) : trace[j].step = b =>
        \E i \in 1..(j - 1) : trace[i].step = a /\ trace[i].res = "True"

\* C23: in the monitor the device readiness is resolved first, then the log
\* buffer is cleared, then the log-stream process is started, then the
\* broadcast is sent; no broadcast goes out before the process was started.
C23_MonitorSetupOrder ==
    /\ AfterSuccessOf("checkAndGetAdbDevice", "logcat_clear")
    /\ AfterSuccessOf("logcat_clear", "logcat_start")
    /\ AfterSuccessOf("logcat_start", "broadcast")
    /\ Count("checkAndGetAdbDevice") <= 1 /\ Count("logcat_clear") <= 1
    /\ Count("logcat_start") <= 1 /\ Count("broadcast") <= 1
    /\ (MonActive /\ mon_pc \in {"loop", "readline", "check", "pull"}) =>
           (Did("broadcast") /\ objProcess # "none")

C23_Witness ==
    /\ Did("broadcast") /\ variant = "CT1" /\ mon_pc = "loop"
    /\ objProcess = "running"

\* the log-stream process was gone before the completion phrase was read
ExitedBeforePhrase ==
    Did("logcat_died") \/ "eof" \in ResOf("finish_read")

\* C24 as stated: when the log-stream process exits before a completion
\* phrase has been read, the monitor returns False and attempts neither the
\* existence check nor the pull.
C24_ExitBeforePhraseFails ==
    ExitedBeforePhrase =>
        /\ ~Did("check_file") /\ ~Did("pull")
        /\ mon_pc = "done" => mon_ret = "False"

\* C24 amended: when the monitor finds the log-stream process exited at the
\* top of a polling pass, it returns False at once, with no existence check
\* and no pull.
C24_ExitSeenAtPollFails ==
    [][(InMon("loop") /\ objProcess = "exited" /\ mon_pc' # "loop") =>
          (mon_pc' = "done" /\ mon_ret' = "False"
           /\ ~Did("check_file")' /\ ~Did("pull")')]_vars

C24_Witness ==
    /\ Did("logcat_died") /\ mon_pc = "done" /\ mon_ret = "False"
    /\ ~Did("check_file") /\ ~Did("pull")

\* the steps that ask the readiness gate before they touch the device
GatedSteps == {"checkAndGetAdbDevice", "settingWiFi11Gchannel7", "settingBTTXTest",
               "settingLTETXTest", "getLTERXResult"}
\* the gate answered ready=false at entry i of the trace
GateRefused(i) == trace[i].step \in GatedSteps /\ trace[i].ready = "False"

\* C25: when the readiness gate reports ready=false the caller does nothing
\* with the device: the monitor starts no log process, sends no broadcast and
\* returns False; the WiFi, BT and LTE TX configurations return False and
\* getLTERXResult returns None, with no device command issued.
C25_NotReadyNoDeviceStep ==
    \A i \in 1..Len(trace) : GateRefused(i) =>
        /\ trace[i].dev = "none"
        /\ trace[i].res = IF trace[i].step = "getLTERXResult" THEN "None" ELSE "False"
        /\ \A j \in (i + 1)..Len(trace) :
              trace[j].dev = "none" /\ trace[j].step \notin GatedSteps
        /\ trace[i].step = "checkAndGetAdbDevice" =>
              /\ ~Did("logcat_clear") /\ ~Did("logcat_start") /\ ~Did("broadcast")
              /\ objProcess = "none"
              /\ mon_pc = "done" /\ mon_ret = "False"

C25_Witness ==
    /\ \E i \in 1..Len(trace) : GateRefused(i) /\ trace[i].step = "getLTERXResult"
    /\ AdbTargets # {}
    /\ st_pc = "s_finally"

\* C26: within one SARF run every ADB command goes to one device: the one
\* given to the run or, with none given, the one first resolved.
C26_OneDevicePerSarfRun ==
    Dispatch = "SARF" =>
        /\ Cardinality(AdbTargets) <= 1
        /\ objArgs.device # "None" => AdbTargets \subseteq {objArgs.device}

\* the place of a step in the ATPFWDL sequence
AtpRank(step) ==
    CASE step = "REQ_INIT" -> 1
      [] step = "REQ_BOOT_ON" -> 2
      [] step = "REQ_POWER_ON" -> 3
      [] step = "REQ_DC_IN" -> 4
      [] step = "checkDeviceConnection" -> 5
      [] step = "REQ_BOOT_OFF" -> 6
      [] step = "updateFirmware" -> 7
      [] step \in MonitorSteps -> 8
      [] step = "FINAL_REQ_INIT" -> 9
      [] OTHER -> 0
\* steps that may be recorded more than once in a row
AtpRepeating == {"checkDeviceConnection"} \cup MonitorSteps

\* C29: the hardware-affecting steps of ATPFWDL run strictly in the order
\* REQ_INIT, REQ_BOOT_ON, REQ_POWER_ON, REQ_DC_IN, connection check,
\* REQ_BOOT_OFF, flash, Completion Monitor, teardown REQ_INIT; the flash is
\* invoked only after a connection check succeeded, the Completion Monitor
\* only after the flash succeeded.
C29_AtpStrictOrder ==
    Dispatch = "ATPFWDL" =>
        /\ \A i \in 1..Len(trace) : AtpRank(trace[i].step) > 0
        /\ Len(trace) > 0 => AtpRank(trace[1].step) = 1
        /\ \A i \in 2..Len(trace) :
              LET was == AtpRank(trace[i - 1].step)
                  now == AtpRank(trace[i].step) IN
              \/ now = was + 1
              \/ now = was /\ trace[i].step \in AtpRepeating
              \/ now = 9 /\ was < 9
        /\ \A j \in 1..Len(trace) : trace[j].step = "updateFirmware" =>
              \E i \in 1..(j - 1) :
                  trace[i].step = "checkDeviceConnection" /\ trace[i].res = "True"
        /\ \A j \in 1..Len(trace) : trace[j].step \in MonitorSteps =>
              \E i \in 1..(j - 1) :
                  trace[i].step = "updateFirmware" /\ trace[i].res = "True"

C29_Witness ==
    /\ Dispatch = "ATPFWDL" /\ st_pc = "returned" /\ st_ret = "True"
    /\ Count("checkDeviceConnection") = 2
    /\ "False" \in ResOf("REQ_BOOT_OFF")
    /\ Did("pull") /\ FinalInits = 1

\* every entry for which Later holds comes after a successful entry of step a
\* recorded under band
SucceededBefore(a, band, Later(_)) ==
    \A j \in 1..Len(trace) : Later(trace[j]) =>
        \E i \in 1..(j - 1) :
            trace[i].step = a /\ trace[i].band = band /\ trace[i].res = "True"

IsBT(e) == e.step = "settingBTTXTest"
IsBand1(e) == e.band = 1
IsBand26(e) == e.band = 26
IsMonitor(e) == e.step \in MonitorSteps

\* the order of the RF steps of SARF
SarfRfOrder ==
    /\ SucceededBefore("settingWiFi11Gchannel7", 0, IsBT)
    /\ SucceededBefore("getIQxelValue WiFi", 0, IsBT)
    /\ SucceededBefore("getIQxelValue BT", 0, IsBand1)
    /\ SucceededBefore("connectGPIB", 0, IsBand1)
    /\ SucceededBefore("getLTERXResult", 1, IsBand26)
    /\ SucceededBefore("getLTERXResult", 26, IsMonitor)

\* an IQxel measurement gave no signal power
IQxelFailed ==
    "False" \in (ResOf("getIQxelValue WiFi") \cup ResOf("getIQxelValue BT"))

\* C30: in SARF each RF step is fatal and ordered: BT after the WiFi
\* configuration and WiFi power measurement succeeded, LTE band 1 after the
\* BT measurement and the GPIB connection succeeded, band 26 after band 1's RX
\* measurement gave a value, the Completion Monitor after band 26's did; a
\* missing or unparsable IQxel signal power aborts the procedure with result
\* False.
C30_SarfRfStepsFatalOrdered ==
    Dispatch = "SARF" =>
        /\ SarfRfOrder
        /\ IQxelFailed =>
              /\ st_pc \in {"s_finally", "returned"}
              /\ ~Did("setupGPIB") /\ ~IsBT(trace[Len(trace)])
              /\ st_pc = "returned" => st_ret = "False"

\* log-stream processes started so far
LogProcessesStarted ==
    Cardinality({i \in 1..Len(trace) :
                    trace[i].step = "logcat_start" /\ trace[i].res = "True"})
\* the station procedure (or the monitor called by main) is over
StationOver == st_pc = "returned" \/ pc \in {"finish", "exited"}

\* C34: at every moment of a station invocation at most one background
\* log-stream process is alive, and none is alive once the station procedure
\* has returned.
C34_OneLogProcessNoneAfterReturn ==
    /\ LogProcessesStarted <= 1
    /\ objProcess # "none" <=> LogProcessesStarted = 1
    /\ objProcess = "running" => (MonActive /\ mon_pc \notin {"idle", "gate", "done"})
    /\ StationOver => objProcess # "running"

C34_Witness ==
    /\ Dispatch = "ATPFWDL" /\ pc = "exited" /\ LogProcessesStarted = 1
    /\ objProcess = "terminated" /\ Did("logcat_died")

\* a station procedure (atpfwdlProcess, sarfProcess) was started
ProcedureStarted == st_pc # "idle"
\* the Completion Monitor was started
MonitorStarted == mon_pc # "idle"
\* the station names that have a procedure of their own in the program run
ProcedureNames == IF variant = "CT1" THEN {"ATPFWDL", "SARF"} ELSE {"ATPFWDL"}
FilesPresent == objArgs.tool /\ objArgs.img

\* C35: nothing is started unless the flashing tool and the image both exist;
\* the ATPFWDL or SARF procedure is started only with a COM port given and
\* resolved; any other non-empty StationName goes straight to the Completion
\* Monitor; a missing StationName is a failed run.
C35_DriverDispatch ==
    /\ (ProcedureStarted \/ MonitorStarted) => FilesPresent
    /\ ProcedureStarted =>
          (objArgs.StationName \in ProcedureNames /\ objArgs.comport = "found")
    /\ (objArgs.StationName \in ProcedureNames /\ pc # "start"
        /\ (~FilesPresent \/ objArgs.comport # "found")) =>
          (~ProcedureStarted /\ ~MonitorStarted /\ bSuccess = "False")
    /\ (objArgs.StationName \notin ProcedureNames \cup {"None"} /\ pc # "start"
        /\ FilesPresent /\ objArgs.comport # "notfound") =>
          (~ProcedureStarted /\ MonitorStarted
           /\ (trace # <<>> => trace[1].step = "checkAndGetAdbDevice"))
    /\ (objArgs.StationName = "None" /\ pc # "start") =>
          (~ProcedureStarted /\ ~MonitorStarted /\ bSuccess = "False"
           /\ (pc = "exited" => exitCode = 1))

C35_Witness ==
    /\ objArgs.StationName = "PreUI" /\ objArgs.comport = "found" /\ FilesPresent
    /\ pc = "exited" /\ exitCode = 0 /\ ~ProcedureStarted

\* step was recorded, and each time the device gave the expected answer
AnsweredAsExpected(step) ==
    /\ Did(step)
    /\ \A i \in 1..Len(trace) : trace[i].step = step =>
          (trace[i].env = "ok" /\ trace[i].res = "True")

\* C36: atpfwdlProcess returns True only if REQ_BOOT_ON, REQ_POWER_ON and
\* REQ_DC_IN each got their expected response, a connection check succeeded,
\* the flash succeeded and the Completion Monitor returned True; it always
\* returns a boolean and lets no exception reach the run driver.
C36_AtpTrueOnlyIfAllSucceeded ==
    Dispatch = "ATPFWDL" =>
        /\ st_ret \in {"unset", "True", "False"}
        /\ pc \in {"finish", "exited"} => bSuccess \in {"True", "False"}
        /\ st_ret = "True" =>
              /\ AnsweredAsExpected("REQ_BOOT_ON")
              /\ AnsweredAsExpected("REQ_POWER_ON")
              /\ AnsweredAsExpected("REQ_DC_IN")
              /\ \E i \in 1..Len(trace) :
                    /\ trace[i].step = "checkDeviceConnection"
                    /\ trace[i].env = "ok" /\ trace[i].res = "True"
              /\ AnsweredAsExpected("updateFirmware")
              /\ mon_pc = "done" /\ mon_ret = "True"

C36_Witness ==
    /\ Dispatch = "ATPFWDL" /\ st_pc = "returned" /\ st_ret = "True"
    /\ "False" \in ResOf("REQ_INIT") /\ "raise" \in ResOf("FINAL_REQ_INIT")
    /\ Count("checkDeviceConnection") = 3

(***************************************************************************)
(* Properties of the primitives (specification UnitSpec).                  *)
(***************************************************************************)
\* a call of sendUartCommand with one of the seven known tokens has ended, by
\* a return or by a serial transport error
UartKnownCallOver ==
    /\ variant = "CT1" /\ uart.pc = "done"
    /\ uart.strCommand \in UartTokens
    /\ uart.err \in {"none", "SerialException"}

\* C11: for each of the seven known tokens sendUartCommand returns True if
\* and only if the token's own RES_*_OK is a substring of the text accumulated
\* during the exchange, and returns False (it does not raise) in every other
\* case.
C11_UartSuccessIffExpected ==
    UartKnownCallOver =>
        /\ uart.ret \in {"True", "False"}
        /\ uart.ret = "True" <=>
               IsSubstring(ExpectedResponse(uart.strCommand), uart.strResponse)

\* C12: every call that opened the serial port has closed it when it returns,
\* on every exit path.
C12_UartPortClosedOnReturn ==
    (uart.pc = "done" /\ uart.objSer # "unbound") => uart.objSer = "closed"

\* C13: the readiness gate never polls the listing more than nMaxRetries
\* times, and when the device never showed up it has polled exactly
\* nMaxRetries times and reports not ready, raising polls included.
C13_GatePollsExactlyMax ==
    /\ gate.nPolls <= gate_nMaxRetries
    /\ (gate.pc = "done" /\ ~gate.bAdbDeviceReady) =>
           (gate.nPolls = gate_nMaxRetries /\ gate.ret = "False")

C13_Witness ==
    /\ gate.pc = "done" /\ ~gate.bAdbDeviceReady /\ gate.bRaised
    /\ gate.nPolls = gate_nMaxRetries /\ gate.ret = "False"

\* C14: getLTERXResult makes at most maxRetry attempts, and when every
\* attempt gave a value below the threshold, or none, it has made exactly
\* maxRetry attempts and returns None.
C14_RxAtMostThreeAttempts ==
    /\ lterx.nAttempts <= maxRetry
    /\ (lterx.pc = "done" /\ lterx.nAttempts > 0 /\ lterx.nBelow = lterx.nAttempts) =>
           (lterx.nAttempts = maxRetry /\ lterx.ret = NoResult)

C14_Witness ==
    /\ lterx.pc = "done" /\ lterx.nBelow = maxRetry /\ lterx.ret = NoResult

\* the line is marked 'device' and is not an emulator's
MarkedDevice(strLine) == strLine.state = "device" /\ strLine.id \notin {"emulator-5554"}

C28_RxReturnsLatestAboveThreshold ==
    ~lterx.ret.none =>
        /\ lterx.pc \in {"finally", "done"} /\ lterx.bRead
        /\ lterx.matches # <<>>
        /\ \E i \in 1..Len(lterx.matches) :
              /\ \A j \in 1..Len(lterx.matches) : j <= i
              /\ lterx.ret.value = lterx.matches[i]
        /\ lterx.ret.value >= fRxThreshold
        /\ SupportedBand(lterx.iLteBand)

C28_Witness ==
    /\ lterx.pc = "done" /\ ~lterx.ret.none /\ lterx.nAttempts = 2
    /\ lterx.matches = <<fRxThreshold + 1, fRxThreshold - 1, fRxThreshold>>
    /\ lterx.ret.value = fRxThreshold

\* the receive loop of the exchange in hand has been left
UartLoopLeft == uart.pc \in {"close", "done"} /\ uart.why # "none"

\* C37: sendUartCommand comes back after a bounded number of passes of its
\* receive loop: the loop never makes more passes than fit into nTimeout, and
\* it is left either because the line went quiet after some text had arrived
\* or because the overall timeout elapsed.
C37_UartLoopBounded ==
    /\ uart.nPasses <= MaxChunks
    /\ uart.fElapsed <= MaxChunks + 1
    /\ UartAt("read") /\ ~UartLoopCond(uart.fElapsed) => ENABLED UartLoopExit
    /\ UartLoopLeft =>
          \/ uart.why = "quiet" /\ uart.strResponse # <<>>
          \/ uart.why = "timeout" /\ uart.fElapsed >= MaxChunks

\* bytes kept arriving until the timeout: the loop made every pass there is
\* room for and the call came back without the expected token
C37_Witness ==
    /\ UartAt("done") /\ uart.why = "timeout" /\ uart.nPasses = MaxChunks
    /\ Len(uart.strResponse) = MaxChunks
    /\ uart.ret \in {"False", "response"}

\* C39: the current sendUartCommand answers True only for one of the seven
\* known tokens, and only when it waited for the response; for any other
\* token, and whenever bWaitForResponse is false, it never answers True.
C39_TrueOnlyForKnownTokens ==
    variant = "CT1" /\ UartAt("done") =>
        /\ uart.ret = "True" =>
              /\ uart.strCommand \in UartTokens
              /\ uart.bWaitForResponse
              /\ IsSubstring(ExpectedResponse(uart.strCommand), uart.strResponse)
        /\ uart.strCommand \notin UartTokens => uart.ret # "True"
        /\ ~uart.bWaitForResponse => uart.ret # "True"

\* a token outside the table was sent, some RES_* text came back, and the
\* call returned None
C39_Witness ==
    /\ variant = "CT1" /\ UartAt("done")
    /\ uart.strCommand \notin UartTokens
    /\ TokensIn(uart.strResponse) # {}
    /\ uart.ret = "None"

\* check_uart_response has judged the value send_uart_command returned
UartChecked == UartAt("done") /\ uart.chk # "unset"

\* C40: legacy check_uart_response: given an expected token it is True
\* exactly when that token occurs in the response; given none it is True
\* exactly when one of the seven standard tokens occurs; on a response of
\* None (the port failed) it is False.
C40_LegacyCheckResponse ==
    UartChecked =>
        /\ uart.chk \in {"True", "False"}
        /\ uart.ret = "None" => uart.chk = "False"
        /\ uart.ret # "None" /\ uart.expected # "None" =>
              (uart.chk = "True" <=> IsSubstring(uart.expected, uart.strResponse))
        /\ uart.ret # "None" /\ uart.expected = "None" =>
              (uart.chk = "True" <=>
                  \E std_resp \in standard_responses :
                      IsSubstring(std_resp, uart.strResponse))

\* a standard token other than the expected one arrived: False with the
\* expected token given
C40_Witness ==
    /\ UartChecked /\ uart.ret = "response"
    /\ uart.expected # "None"
    /\ TokensIn(uart.strResponse) # {}
    /\ ~IsSubstring(uart.expected, uart.strResponse)
    /\ uart.chk = "False"

\* C38: once getLTERXResult is past its readiness check, the cleanup on the
\* device (stop the capture, remove the capture file) runs exactly once
\* before the function returns, whatever the exit: value accepted, retries
\* used up, band not supported, exception; it does not run before the exit,
\* nor when the readiness check fails.
C38_RxCleanupExactlyOnce ==
    /\ lterx.pc = "loop" => lterx.lstCleanup = <<>>
    /\ lterx.pc = "done" =>
          lterx.lstCleanup = IF lterx.bAdbDeviceReady THEN <<"pkill", "rm">> ELSE <<>>

\* an attempt raised after an earlier one fell short: the function has
\* cleaned up once and returns None
C38_Witness ==
    /\ lterx.pc = "done" /\ lterx.bAdbDeviceReady /\ lterx.bRaised
    /\ lterx.nBelow > 0
    /\ lterx.lstCleanup = <<"pkill", "rm">> /\ lterx.ret = NoResult

(***************************************************************************)
(* Properties of runCommand and its callers (specification ToolSpec).      *)
(***************************************************************************)
\* the non-empty lines of a text, in order
RECURSIVE SplitLines(_, _)
SplitLines(text, strLine) ==
    IF text = <<>> THEN (IF strLine = <<>> THEN <<>> ELSE <<strLine>>)
    ELSE IF Head(text) = "\n"
         THEN (IF strLine = <<>> THEN <<>> ELSE <<strLine>>)
              \o SplitLines(Tail(text), <<>>)
         ELSE SplitLines(Tail(text), Append(strLine, Head(text)))
LinesOf(text) == SplitLines(text, <<>>)
SeqRange(q) == {q[i] : i \in 1..Len(q)}
\* the lines the tool wrote, to either stream
WrittenLines ==
    SeqRange(LinesOf(cmd.wrote["stdout"])) \cup SeqRange(LinesOf(cmd.wrote["stderr"]))
\* one call of fn is over
ToolCallOver(fn) == cmd.pc = "done" /\ cmd.fn = fn

\* C31: checkDeviceConnection returns True if and only if one line of the
\* tool's device list holds both 'DevNo=' and 'Mode=Maskrom'; otherwise it
\* returns False.
C31_ConnectionIffMaskromLine ==
    ToolCallOver("checkDeviceConnection") =>
        /\ cmd.ret \in {"True", "False"}
        /\ cmd.ret = "True" <=>
              \E strLine \in WrittenLines :
                  {"DevNo=", "Mode=Maskrom"} \subseteq SeqRange(strLine)

\* C32: updateFirmware returns True if and only if a line of the tool's flash
\* output holds 'Upgrade firmware ok'; otherwise it returns False.
C32_FlashIffUpgradeOk ==
    ToolCallOver("updateFirmware") =>
        /\ cmd.ret \in {"True", "False"}
        /\ cmd.ret = "True" <=>
              \E strLine \in WrittenLines : "Upgrade firmware ok" \in SeqRange(strLine)

\* C33: under every interleaving of the two reader threads each returned
\* line is one line written by one of the two streams, and every stdout line
\* is returned whole.
C33_ReturnedLinesAreWrittenLines ==
    (cmd.pc = "done" /\ cmd.ret # "raise" /\ ~cmd.bTimedOut) =>
        /\ SeqRange(cmd.lstOutputLines) \subseteq WrittenLines
        /\ SeqRange(LinesOf(cmd.wrote["stdout"])) \subseteq SeqRange(cmd.lstOutputLines)
====
